---- MODULE Spec2Model ----
(***************************************************************************)
(* Model of the FileRipper transfer core (package pfte):                   *)
(*   - JobQueue            internal/pfte/queue.go                          *)
(*   - TransferMonitor     internal/pfte/plr.go                            *)
(*   - WorkerPool          internal/pfte/plr.go (StartUnleash)             *)
(*   - chunked transfer    internal/pfte/transfer.go                       *)
(*   - Engine              internal/pfte/engine.go                         *)
(* Every component has its own specification over its own group of         *)
(* variables; the other groups stay at their initial value.                *)
(***************************************************************************)
EXTENDS Integers, Sequences, FiniteSets, TLC

(***************************************************************************)
(* Bounds of the model.                                                    *)
(***************************************************************************)
NumProcs == 2        \* goroutines calling the JobQueue concurrently
MaxAdds == 3         \* Add calls made on one JobQueue
NumCallers == 2      \* goroutines calling the TransferMonitor concurrently
MaxAddBytes == 3     \* AddBytes calls made on the monitor
MaxIncFile == 2      \* IncFileDone calls made on the monitor
MaxResets == 2       \* Reset calls made on the monitor
MaxRead == 2         \* largest byte count one AddBytes call reports
MaxConcurrency == 2  \* largest wp.Concurrency of a batch
MaxSessions == 2     \* largest number of sessions handed to StartUnleash
MaxJobs == 2         \* largest number of jobs queued for a batch
MaxBufs == 1         \* largest file, in copy buffers
MaxPoolFaults == 1   \* I/O calls that fail during one batch of the pool
MaxFaults == 3       \* I/O calls that fail during the transfer of one job
MaxBlocks == 2       \* largest small file of a single transfer, in blocks
MaxDirs == 2         \* directories below the source of an upload
MaxExtraBytes == 40  \* bytes above MultipartThreshold of the largest file split
ReadBlocks == 8      \* blocks one Read of the single-stream copy delivers at most

(***************************************************************************)
(* JobQueue state (queue.go).                                              *)
(***************************************************************************)
VARIABLES
    jobs,       \* q.jobs: the slice of queued jobs, head first
    mu,         \* q.mu: 0 when unlocked, else the goroutine holding it
    qpc,        \* position of every goroutine inside Add / Pop / Count
    qjob,       \* the goroutine's local `job` (argument of Add, result of Pop)
    qret,       \* value last returned to the goroutine by Count
    added,      \* history: jobs appended by Add, in order
    popped      \* history: jobs returned by Pop, in order

qvars == <<jobs, mu, qpc, qjob, qret, added, popped>>

(***************************************************************************)
(* TransferMonitor state (plr.go, GlobalMonitor).                          *)
(***************************************************************************)
VARIABLES
    totalFiles,   \* m.totalFiles (atomic)
    filesDone,    \* m.filesDone  (atomic)
    totalBytes,   \* m.totalBytes (atomic)
    bytesDone,    \* m.bytesDone  (atomic)
    currentFile,  \* m.currentFile (under m.mu)
    isRunning,    \* m.isRunning   (under m.mu)
    mmu,          \* m.mu: 0 when unlocked, else the goroutine holding it
    mpc,          \* position of every caller inside Reset
    marg,         \* the caller's Reset arguments <<totalFiles, totalBytes>>
    bytesPassed,  \* history: sum of the n passed to AddBytes since bytesDone was last zeroed
    addCalls,     \* history: number of AddBytes calls
    incCalls,     \* history: number of IncFileDone calls
    resetCalls    \* history: number of Reset calls

monvars == <<totalFiles, filesDone, totalBytes, bytesDone, currentFile, isRunning, mmu>>
mcallvars == <<mpc, marg, bytesPassed, addCalls, incCalls, resetCalls>>

(***************************************************************************)
(* WorkerPool and transfer state (plr.go StartUnleash, transfer.go).       *)
(***************************************************************************)
VARIABLES
    concurrency,  \* wp.Concurrency
    sessionCount, \* len(sessions)
    operation,    \* job.Operation of the jobs of the batch
    fsize,        \* size of every job's source file, in blocks
    faultBudget,  \* I/O calls that may fail during the batch
    ctxDone,      \* ctx.Done() is closed (cancellation was triggered)
    upc,          \* position of StartUnleash
    spawnI,       \* StartUnleash: loop variable i
    wg,           \* wp.Wg counter
    faults,       \* I/O calls that have failed so far
    wpc,          \* position of every worker goroutine
    wsess,        \* worker: its parameter sess (index into sessions)
    wjob,         \* worker: its local job
    attempt,      \* single-stream transfer: loop variable attempt
    lastErr,      \* single-stream transfer: lastErr
    wpos,         \* copyWithContext: blocks copied so far
    mpPending,    \* uploadMultipart: sub-workers that have not opened their handles yet
    mpOpen,       \* uploadMultipart: sub-workers holding an open remote handle
    mpErrs,       \* uploadMultipart: 1 when len(errChan) > 0, else 0
    streams,      \* per session: remote file handles currently open
    dst,          \* per job: buffers held by the destination file
    werr,         \* worker: its local err, the value the transfer returned
    usedSess,     \* history: per worker, the sessions the current transfer issued calls on
    attemptLog,   \* history: per worker, the outcome of each single-stream attempt of the current transfer
    result,       \* history: per job, what its transfer returned
    xfers,        \* history: per job, how many times a worker started to transfer it
    queuedAtCancel, \* history: len(q.jobs) when cancellation was triggered, else -1
    racers,       \* history: the workers between their ctx check and their Pop when cancellation was triggered
    mpCalls       \* history: per job, the calls of uploadMultipart

(***************************************************************************)
(* Engine.StartTransfer state (engine.go), upload path.                    *)
(***************************************************************************)
VARIABLES
    epc,             \* position of StartTransfer
    walked,          \* the directories below the source, in the order of filepath.Walk
    foldersToCreate, \* foldersToCreate, each directory standing for its path length
    dirChan,         \* dirChan: the directories not yet received (the channel is closed)
    dirI,            \* loop variable i of the launch of the directory workers
    dirIdle,         \* directory workers at `for dir := range dirChan`
    dirBusy,         \* directories whose MkdirAll call has not returned yet
    dirWg,           \* the directory phase's wg counter
    doneCount,       \* doneCount (atomic)
    made,            \* remote directories that exist
    addI,            \* files of filesToTransfer handed to Queue.Add so far
    hasClient,       \* sessions[0].SftpClient != nil
    eres             \* what StartTransfer returned, "none" while it runs

engvars == <<epc, walked, foldersToCreate, dirChan, dirI, dirIdle, dirBusy, dirWg,
             doneCount, made, addI, hasClient, eres>>

(***************************************************************************)
(* uploadMultipart's split of a file into byte ranges (transfer.go         *)
(* 177-199), in bytes.                                                     *)
(***************************************************************************)
VARIABLES
    splitSize,  \* size: the length of the file in bytes
    splitI,     \* loop variable i of the launch of the sub-workers
    splitPlan,  \* the <<offset, length>> handed to each sub-worker launched so far
    subI,       \* uploadMultipart: sub-workers launched (loop variable i), with wg.Add(1) each
    subOpening, \* sub-workers launched that have not opened and positioned their files yet
    subCopying, \* sub-workers in their copy loop
    subExited,  \* sub-workers that returned (deferred wg.Done() has run)
    subBlocked, \* sub-workers blocked in a send to errChan
    errChan,    \* len(errChan)
    mres        \* what uploadMultipart returned: "run" before, then "nil" or "err"

swarmvars == <<subI, subOpening, subCopying, subExited, subBlocked, errChan, mres>>
splitvars == <<splitSize, splitI, splitPlan, swarmvars>>

(***************************************************************************)
(* A goroutine polling GlobalMonitor.GetStats (plr.go 361-394).            *)
(***************************************************************************)
VARIABLES
    spc,        \* position of the polling goroutine inside GetStats
    snap,       \* the TransferStats being built, then the one last returned
    snapEpoch,  \* history: GetStats locked m.mu after Reset returned and before any Pop returned a job
    filesPassed,  \* history: IncFileDone calls since Reset last zeroed filesDone (kept by SpecEpoch)
    lastBytes,    \* m.lastBytes (under m.mu)
    lastCheck,    \* m.lastCheck (under m.mu), in clock units
    currentSpeed, \* m.currentSpeed (under m.mu): <<bytes, clock units>>, the quotient not taken
    now,          \* the clock time.Now() reads
    sNow,         \* now: what the GetStats call in progress read from the clock
    snapSpeed     \* SpeedMBs of the snapshot last returned

speedvars == <<lastBytes, lastCheck, currentSpeed>>
statvars == <<spc, snap, snapEpoch, filesPassed, speedvars, now, sNow, snapSpeed>>

(***************************************************************************)
(* Engine.startDownload state (engine.go 376-466): the remote walk.        *)
(***************************************************************************)
VARIABLES
    entries,    \* what walker.Step() reports, in order: "file", "dir" or "err" (walker.Err() != nil)
    walkI,      \* entries the loop has consumed
    remoteSource, \* remoteSource: "requested" (targetPath) or "found" (what the search returned)
    addedUnder, \* history: for every job enqueued, the source whose walk reported its path
    fstack,     \* findRemotePath: the calls in progress, outermost first
    fres,       \* findRemotePath: "idle", "run", then "empty" (returned "") or "found"
    fpath       \* findRemotePath: the returned path below the root, one element per component

findvars == <<fstack, fres, fpath>>
dlvars == <<entries, walkI, remoteSource, addedUnder, findvars>>

(***************************************************************************)
(* The sort of the directory plan (engine.go 319-321) on paths proper.     *)
(***************************************************************************)
VARIABLES
    planIn,     \* foldersToCreate before sort.Slice: paths, each a sequence of names
    planOut     \* foldersToCreate after sort.Slice, empty before

sortvars == <<planIn, planOut>>

\* What the pool reads and never writes: its configuration and its caller
cfgvars == <<concurrency, sessionCount, operation, fsize, faultBudget, engvars, splitvars, statvars,
             dlvars, sortvars>>
unleashvars == <<upc, spawnI, wg>>
mpvars == <<mpPending, mpOpen, mpErrs>>
wvars == <<wpc, wsess, wjob, werr, attempt, lastErr, wpos, mpvars>>
iovars == <<streams, dst, faults>>
histvars == <<usedSess, attemptLog, result, xfers, queuedAtCancel, racers, mpCalls>>
poolvars == <<cfgvars, ctxDone, unleashvars, wvars, iovars, histvars>>

vars == <<qvars, monvars, mcallvars, poolvars>>

Procs == 1..NumProcs
NoJob == 0
JobIds == 1..MaxAdds

\* sync.Mutex: Lock() succeeds only when nobody holds the mutex.
MuFreeAlways(m) == TRUE
MuFree(m) == m = 0

\* Add: q.jobs = append(q.jobs, job)
AppendFront(q, j) == <<j>> \o q
AppendJob(q, j) == Append(q, j)

\* Pop: job := q.jobs[0]
QueueLast(q) == q[Len(q)]
QueueHead(q) == q[1]

\* Pop: q.jobs = q.jobs[1:]
QueueKeep(q) == q
QueueRest(q) == SubSeq(q, 2, Len(q))

Callers == 1..NumCallers
Placeholder == "Initializing..."
FileNames == {"a", "b"}
ResetArgs == {<<1, 2>>, <<2, 3>>}

\* NewMonitor(): every field at its zero value
InitMonitorVars ==
    /\ totalFiles = 0
    /\ filesDone = 0
    /\ totalBytes = 0
    /\ bytesDone = 0
    /\ currentFile = ""
    /\ isRunning = FALSE
    /\ mmu = 0

InitMonCallVars ==
    /\ mpc = [c \in Callers |-> "idle"]
    /\ marg = [c \in Callers |-> <<0, 0>>]
    /\ bytesPassed = 0
    /\ addCalls = 0
    /\ incCalls = 0
    /\ resetCalls = 0

\* StartTransfer at position pc with no directory plan
EngineAt(pc) ==
    /\ epc = pc
    /\ walked = <<>>
    /\ foldersToCreate = <<>>
    /\ dirChan = <<>>
    /\ dirI = 0
    /\ dirIdle = 0
    /\ dirBusy = {}
    /\ dirWg = 0
    /\ doneCount = 0
    /\ made = {}
    /\ addI = 0
    /\ hasClient = TRUE
    /\ eres = "none"

\* No uploadMultipart call is computing a split
SplitIdle ==
    /\ splitSize = 0
    /\ splitI = 0
    /\ splitPlan = <<>>
    /\ subI = 0
    /\ subOpening = 0
    /\ subCopying = 0
    /\ subExited = 0
    /\ subBlocked = 0
    /\ errChan = 0
    /\ mres = "run"

\* TransferStats{}: no field loaded yet
NoStats == [TotalFiles |-> -1, FilesDone |-> -1, TotalBytes |-> -1, BytesDone |-> -1,
            CurrentFile |-> "", IsRunning |-> FALSE]

\* m.currentSpeed = 0
ZeroSpeed == <<0, 1>>

\* No GetStats call has been made; the clock stands at the time NewMonitor
\* or Reset read
StatsIdle ==
    /\ spc = "idle"
    /\ snap = NoStats
    /\ snapEpoch = FALSE
    /\ filesPassed = 0
    /\ lastBytes = 0
    /\ lastCheck = 0
    /\ currentSpeed = ZeroSpeed
    /\ now = 0
    /\ sNow = 0
    /\ snapSpeed = ZeroSpeed

\* No remote walk is running
FindIdle ==
    /\ fstack = <<>>
    /\ fres = "idle"
    /\ fpath = <<>>

WalkIdle ==
    /\ entries = <<>>
    /\ walkI = 0
    /\ remoteSource = "requested"
    /\ addedUnder = <<>>
    /\ FindIdle

\* No directory plan is being sorted
SortIdle ==
    /\ planIn = <<>>
    /\ planOut = <<>>

\* No batch: the pool variables of a process that runs no StartUnleash
InitPoolIdle ==
    /\ SplitIdle
    /\ StatsIdle
    /\ WalkIdle
    /\ SortIdle
    /\ EngineAt("none")
    /\ concurrency = 0
    /\ sessionCount = 0
    /\ operation = "NONE"
    /\ fsize = <<>>
    /\ faultBudget = 0
    /\ ctxDone = FALSE
    /\ upc = "idle"
    /\ spawnI = 0
    /\ wg = 0
    /\ faults = 0
    /\ wpc = <<>>
    /\ wsess = <<>>
    /\ wjob = <<>>
    /\ werr = <<>>
    /\ attempt = <<>>
    /\ lastErr = <<>>
    /\ wpos = <<>>
    /\ mpPending = <<>>
    /\ mpOpen = <<>>
    /\ mpErrs = <<>>
    /\ streams = <<>>
    /\ dst = <<>>
    /\ usedSess = <<>>
    /\ attemptLog = <<>>
    /\ result = <<>>
    /\ xfers = <<>>
    /\ queuedAtCancel = -1
    /\ racers = {}
    /\ mpCalls = <<>>

InitQueueVars ==
    /\ jobs = <<>>
    /\ mu = 0
    /\ qpc = [p \in Procs |-> "idle"]
    /\ qjob = [p \in Procs |-> NoJob]
    /\ qret = [p \in Procs |-> 0]
    /\ added = <<>>
    /\ popped = <<>>

\* Add(job): q.mu.Lock()
AddLock(p) ==
    /\ qpc[p] = "idle"
    /\ Len(added) + Cardinality({r \in Procs : qpc[r] = "add"}) < MaxAdds
    /\ MuFree(mu)
    /\ mu' = p
    /\ qpc' = [qpc EXCEPT ![p] = "add"]
    /\ qjob' = [qjob EXCEPT ![p] =
                  Len(added) + Cardinality({r \in Procs : qpc[r] = "add"}) + 1]
    /\ UNCHANGED <<jobs, qret, added, popped>>

\* Add(job): append, then the deferred q.mu.Unlock()
AddAppend(p) ==
    /\ qpc[p] = "add"
    /\ jobs' = AppendJob(jobs, qjob[p])
    /\ added' = Append(added, qjob[p])
    /\ mu' = IF mu = p THEN 0 ELSE mu
    /\ qpc' = [qpc EXCEPT ![p] = "idle"]
    /\ qjob' = [qjob EXCEPT ![p] = NoJob]
    /\ UNCHANGED <<qret, popped>>

\* Pop(): q.mu.Lock()
PopLock(p) ==
    /\ qpc[p] = "idle"
    /\ MuFree(mu)
    /\ mu' = p
    /\ qpc' = [qpc EXCEPT ![p] = "pop"]
    /\ UNCHANGED <<jobs, qjob, qret, added, popped>>

\* Pop(): if len(q.jobs) == 0 { return nil }, else job := q.jobs[0]
PopRead(p) ==
    /\ qpc[p] = "pop"
    /\ IF Len(jobs) = 0
       THEN /\ qpc' = [qpc EXCEPT ![p] = "popNil"]
            /\ qjob' = [qjob EXCEPT ![p] = NoJob]
       ELSE /\ qpc' = [qpc EXCEPT ![p] = "popShift"]
            /\ qjob' = [qjob EXCEPT ![p] = QueueHead(jobs)]
    /\ UNCHANGED <<jobs, mu, qret, added, popped>>

\* Pop(): return nil, with the deferred q.mu.Unlock()
PopNil(p) ==
    /\ qpc[p] = "popNil"
    /\ mu' = IF mu = p THEN 0 ELSE mu
    /\ qpc' = [qpc EXCEPT ![p] = "idle"]
    /\ UNCHANGED <<jobs, qjob, qret, added, popped>>

\* Pop(): q.jobs = q.jobs[1:]; return job, with the deferred q.mu.Unlock()
PopShift(p) ==
    /\ qpc[p] = "popShift"
    /\ jobs' = QueueRest(jobs)
    /\ popped' = Append(popped, qjob[p])
    /\ mu' = IF mu = p THEN 0 ELSE mu
    /\ qpc' = [qpc EXCEPT ![p] = "idle"]
    /\ qjob' = [qjob EXCEPT ![p] = NoJob]
    /\ UNCHANGED <<qret, added>>

\* Count(): q.mu.Lock()
CountLock(p) ==
    /\ qpc[p] = "idle"
    /\ MuFree(mu)
    /\ mu' = p
    /\ qpc' = [qpc EXCEPT ![p] = "count"]
    /\ UNCHANGED <<jobs, qjob, qret, added, popped>>

\* Count(): return len(q.jobs), with the deferred q.mu.Unlock()
CountReturn(p) ==
    /\ qpc[p] = "count"
    /\ qret' = [qret EXCEPT ![p] = Len(jobs)]
    /\ mu' = IF mu = p THEN 0 ELSE mu
    /\ qpc' = [qpc EXCEPT ![p] = "idle"]
    /\ UNCHANGED <<jobs, qjob, added, popped>>

InitQueue == InitQueueVars /\ InitMonitorVars /\ InitMonCallVars /\ InitPoolIdle

QueueOnly == UNCHANGED <<monvars, mcallvars, poolvars>>

NextQueue ==
    \/ \E p \in Procs : AddLock(p) /\ QueueOnly
    \/ \E p \in Procs : AddAppend(p) /\ QueueOnly
    \/ \E p \in Procs : PopLock(p) /\ QueueOnly
    \/ \E p \in Procs : PopRead(p) /\ QueueOnly
    \/ \E p \in Procs : PopNil(p) /\ QueueOnly
    \/ \E p \in Procs : PopShift(p) /\ QueueOnly
    \/ \E p \in Procs : CountLock(p) /\ QueueOnly
    \/ \E p \in Procs : CountReturn(p) /\ QueueOnly

SpecQueue == InitQueue /\ [][NextQueue]_vars

(***************************************************************************)
(* Claims about the JobQueue.                                              *)
(***************************************************************************)

\* C1: whenever a Pop finds the queue empty and is about to return the empty
\* sentinel, the sequence of jobs returned by Pop so far equals the sequence
\* of jobs added so far, in the same (FIFO) order, nothing missing and
\* nothing extra; before that, the jobs returned are a prefix of the jobs
\* added and the queue holds exactly the rest, in order.
C1_FifoDrain ==
    /\ added = popped \o jobs
    /\ \A p \in Procs : qpc[p] = "popNil" => popped = added

\* A Pop returns the empty sentinel after all MaxAdds jobs were added and popped.
C1_Witness ==
    \E p \in Procs : qpc[p] = "popNil" /\ Len(added) = MaxAdds /\ Len(popped) = MaxAdds

\* C2: in every reachable state, under any interleaving of Add, Pop and Count,
\* (jobs returned by Pop) + (jobs remaining in the queue) = (jobs added).
C2_Conservation == Len(popped) + Len(jobs) = Len(added)

\* Jobs were popped while others remain, with another call in progress.
C2_Witness ==
    /\ Len(popped) >= 1
    /\ Len(jobs) >= 1
    /\ \E p \in Procs : qpc[p] # "idle"

(***************************************************************************)
(* TransferMonitor operations (plr.go).                                    *)
(***************************************************************************)

\* atomic.AddInt64(addr, delta): the new value
StoreDelta(old, delta) == delta
AddInt64(old, delta) == old + delta

\* Reset: m.mu.Lock()
ResetLock(c) ==
    /\ mpc[c] = "idle"
    /\ resetCalls < MaxResets
    /\ MuFree(mmu)
    /\ mmu' = c
    /\ \E a \in ResetArgs : marg' = [marg EXCEPT ![c] = a]
    /\ mpc' = [mpc EXCEPT ![c] = "storeTotalFiles"]
    /\ resetCalls' = resetCalls + 1
    /\ UNCHANGED <<totalFiles, filesDone, totalBytes, bytesDone, currentFile, isRunning,
                   bytesPassed, addCalls, incCalls>>

\* Reset: atomic.StoreInt64(&m.totalFiles, totalFiles)
ResetTotalFiles(c) ==
    /\ mpc[c] = "storeTotalFiles"
    /\ totalFiles' = marg[c][1]
    /\ mpc' = [mpc EXCEPT ![c] = "storeTotalBytes"]
    /\ UNCHANGED <<filesDone, totalBytes, bytesDone, currentFile, isRunning, mmu,
                   marg, bytesPassed, addCalls, incCalls, resetCalls>>

\* Reset: atomic.StoreInt64(&m.totalBytes, totalBytes)
ResetTotalBytes(c) ==
    /\ mpc[c] = "storeTotalBytes"
    /\ totalBytes' = marg[c][2]
    /\ mpc' = [mpc EXCEPT ![c] = "storeFilesDone"]
    /\ UNCHANGED <<totalFiles, filesDone, bytesDone, currentFile, isRunning, mmu,
                   marg, bytesPassed, addCalls, incCalls, resetCalls>>

\* Reset: atomic.StoreInt64(&m.filesDone, 0)
ResetFilesDone(c) ==
    /\ mpc[c] = "storeFilesDone"
    /\ filesDone' = 0
    /\ mpc' = [mpc EXCEPT ![c] = "storeBytesDone"]
    /\ UNCHANGED <<totalFiles, totalBytes, bytesDone, currentFile, isRunning, mmu,
                   marg, bytesPassed, addCalls, incCalls, resetCalls>>

\* Reset: atomic.StoreInt64(&m.bytesDone, 0)
ResetBytesDone(c) ==
    /\ mpc[c] = "storeBytesDone"
    /\ bytesDone' = 0
    /\ bytesPassed' = 0
    /\ mpc' = [mpc EXCEPT ![c] = "fields"]
    /\ UNCHANGED <<totalFiles, filesDone, totalBytes, currentFile, isRunning, mmu,
                   marg, addCalls, incCalls, resetCalls>>

\* Reset: currentFile, isRunning (and the speed baseline), then the deferred Unlock
ResetFields(c) ==
    /\ mpc[c] = "fields"
    /\ currentFile' = Placeholder
    /\ isRunning' = TRUE
    /\ mmu' = IF mmu = c THEN 0 ELSE mmu
    /\ mpc' = [mpc EXCEPT ![c] = "idle"]
    /\ UNCHANGED <<totalFiles, filesDone, totalBytes, bytesDone,
                   marg, bytesPassed, addCalls, incCalls, resetCalls>>

\* AddBytes(n): atomic.AddInt64(&m.bytesDone, n); takes no lock
AddBytes(c, n) ==
    /\ mpc[c] = "idle"
    /\ addCalls < MaxAddBytes
    /\ bytesDone' = AddInt64(bytesDone, n)
    /\ bytesPassed' = bytesPassed + n
    /\ addCalls' = addCalls + 1
    /\ UNCHANGED <<totalFiles, filesDone, totalBytes, currentFile, isRunning, mmu,
                   mpc, marg, incCalls, resetCalls>>

\* IncFileDone(): atomic.AddInt64(&m.filesDone, 1); takes no lock
IncFileDone(c) ==
    /\ mpc[c] = "idle"
    /\ incCalls < MaxIncFile
    /\ filesDone' = AddInt64(filesDone, 1)
    /\ incCalls' = incCalls + 1
    /\ UNCHANGED <<totalFiles, totalBytes, bytesDone, currentFile, isRunning, mmu,
                   mpc, marg, bytesPassed, addCalls, resetCalls>>

\* SetCurrentFile(name): Lock; m.currentFile = name; Unlock
SetCurrentFile(c, name) ==
    /\ mpc[c] = "idle"
    /\ MuFree(mmu)
    /\ currentFile' = name
    /\ UNCHANGED <<totalFiles, filesDone, totalBytes, bytesDone, isRunning, mmu,
                   mcallvars>>

\* SetRunning(running): Lock; m.isRunning = running; Unlock
SetRunning(c, running) ==
    /\ mpc[c] = "idle"
    /\ MuFree(mmu)
    /\ isRunning' = running
    /\ UNCHANGED <<totalFiles, filesDone, totalBytes, bytesDone, currentFile, mmu,
                   mcallvars>>

InitMonitor == InitQueueVars /\ InitMonitorVars /\ InitMonCallVars /\ InitPoolIdle

NextMonitor ==
    \/ \E c \in Callers : ResetLock(c) /\ UNCHANGED <<qvars, poolvars>>
    \/ \E c \in Callers : ResetTotalFiles(c) /\ UNCHANGED <<qvars, poolvars>>
    \/ \E c \in Callers : ResetTotalBytes(c) /\ UNCHANGED <<qvars, poolvars>>
    \/ \E c \in Callers : ResetFilesDone(c) /\ UNCHANGED <<qvars, poolvars>>
    \/ \E c \in Callers : ResetBytesDone(c) /\ UNCHANGED <<qvars, poolvars>>
    \/ \E c \in Callers : ResetFields(c) /\ UNCHANGED <<qvars, poolvars>>
    \/ \E c \in Callers, n \in 1..MaxRead : AddBytes(c, n) /\ UNCHANGED <<qvars, poolvars>>
    \/ \E c \in Callers : IncFileDone(c) /\ UNCHANGED <<qvars, poolvars>>
    \/ \E c \in Callers, name \in FileNames : SetCurrentFile(c, name) /\ UNCHANGED <<qvars, poolvars>>
    \/ \E c \in Callers, b \in BOOLEAN : SetRunning(c, b) /\ UNCHANGED <<qvars, poolvars>>

SpecMonitor == InitMonitor /\ [][NextMonitor]_vars

(***************************************************************************)
(* Claims about the TransferMonitor.                                       *)
(***************************************************************************)

\* C4: concurrent AddBytes(n) calls add up exactly: BytesDone equals the sum
\* of all n passed since bytesDone was last zeroed by Reset, whatever the
\* interleaving of the callers (no lost update).
C4_NoLostUpdate == bytesDone = bytesPassed

\* Several AddBytes calls, by callers running next to a Reset in progress,
\* have accumulated after a Reset zeroed the counter.
C4_Witness ==
    /\ addCalls = MaxAddBytes
    /\ resetCalls >= 1
    /\ bytesPassed >= 2
    /\ bytesPassed < MaxAddBytes * MaxRead
    /\ \E c \in Callers : mpc[c] = "fields"

(***************************************************************************)
(* WorkerPool.StartUnleash and the worker loop (plr.go 132-181).           *)
(***************************************************************************)

MaxAttempts == 3
MultipartChunks == 16
MultipartThreshold == 10485760

\* MultipartThreshold in blocks: the smallest size that gives each of the
\* MultipartChunks ranges one block
ThresholdBlocks == MultipartChunks

\* The bytes of one block: MultipartThreshold bytes are ThresholdBlocks blocks
BlockBytes == MultipartThreshold \div ThresholdBlocks

RECURSIVE SumSizes(_)
SumSizes(f) == IF Len(f) = 0 THEN 0 ELSE f[Len(f)] + SumSizes(SubSeq(f, 1, Len(f) - 1))

Workers == 0 .. (concurrency - 1)
Sessions == 0 .. (sessionCount - 1)
BatchJobs == 1 .. Len(fsize)
PathNames == <<"f1", "f2", "f3", "f4">>
RemotePath(j) == PathNames[j]

\* The queue caller that stands for worker w
QP(w) == w + 1

\* Load balance: assignedSession := sessions[i%sessionCount]
AssignFirst(i, n) == 0
AssignedSession(i, n) == i % n

\* Worker: case <-ctx.Done() of the select before Pop
SelectNeverDone(done) == FALSE
SelectDone(done) == done

\* wp.Wg.Wait() returns when the counter is zero
WaitReturnsAlways(n) == TRUE
WaitReturns(n) == n = 0

\* defer wp.Wg.Done()
WgKeep(n) == n
WgDone(n) == n - 1

\* for attempt := 1; attempt <= 3; attempt++
AttemptInRangeFour(a) == a <= MaxAttempts + 1
AttemptInRange(a) == a <= MaxAttempts

\* The workers, the queue callers and the mutexes before StartUnleash is called
InitWorkers ==
    /\ SplitIdle
    /\ StatsIdle
    /\ SortIdle
    /\ ctxDone = FALSE
    /\ spawnI = 0
    /\ wg = 0
    /\ faults = 0
    /\ wpc = [w \in Workers |-> "none"]
    /\ wsess = [w \in Workers |-> -1]
    /\ wjob = [w \in Workers |-> NoJob]
    /\ werr = [w \in Workers |-> "none"]
    /\ attempt = [w \in Workers |-> 0]
    /\ lastErr = [w \in Workers |-> "nil"]
    /\ wpos = [w \in Workers |-> 0]
    /\ mpPending = [w \in Workers |-> 0]
    /\ mpOpen = [w \in Workers |-> 0]
    /\ mpErrs = [w \in Workers |-> 0]
    /\ streams = [s \in Sessions |-> 0]
    /\ dst = [j \in BatchJobs |-> -1]
    /\ usedSess = [w \in Workers |-> {}]
    /\ attemptLog = [w \in Workers |-> <<>>]
    /\ result = [j \in BatchJobs |-> "none"]
    /\ xfers = [j \in BatchJobs |-> 0]
    /\ queuedAtCancel = -1
    /\ racers = {}
    /\ mpCalls = [j \in BatchJobs |-> 0]
    /\ popped = <<>>
    /\ mu = 0
    /\ qpc = [p \in 1..concurrency |-> "idle"]
    /\ qjob = [p \in 1..concurrency |-> NoJob]
    /\ qret = [p \in 1..concurrency |-> 0]
    /\ mmu = 0
    /\ InitMonCallVars

\* The state in which the Engine calls StartUnleash: the jobs are queued,
\* the monitor was Reset, nothing has been spawned.
InitBatch ==
    /\ InitWorkers
    /\ WalkIdle
    /\ EngineAt("unleash")
    /\ upc = "start"
    \* the queue, seeded by the Engine in scan order
    /\ jobs = [i \in BatchJobs |-> i]
    /\ added = jobs
    \* the monitor, after GlobalMonitor.Reset(fileCount, totalBytes)
    /\ totalFiles = Len(fsize)
    /\ filesDone = 0
    /\ totalBytes = SumSizes(fsize)
    /\ bytesDone = 0
    /\ currentFile = Placeholder
    /\ isRunning = TRUE

\* A batch of the pool: up to MaxConcurrency workers on up to MaxSessions
\* sessions and up to MaxJobs jobs.  Either all files are small and up to
\* MaxPoolFaults I/O calls fail, or an upload starts with one large file and
\* no I/O call fails (the multipart upload then fails by cancellation only).
InitPool ==
    /\ concurrency \in 1..MaxConcurrency
    /\ sessionCount \in 1..MaxSessions
    /\ operation \in {"UPLOAD", "DOWNLOAD"}
    /\ \E n \in 1..MaxJobs : fsize \in [1..n -> (0..MaxBufs) \cup {ThresholdBlocks}]
    /\ \A j \in DOMAIN fsize : fsize[j] >= ThresholdBlocks => (j = 1 /\ operation = "UPLOAD")
    /\ faultBudget = IF fsize[1] >= ThresholdBlocks THEN 0 ELSE MaxPoolFaults
    /\ InitBatch

\* The transfer of a single job by a single worker, with enough failing
\* I/O calls to exhaust the attempts.
InitTransfer ==
    /\ concurrency = 1
    /\ sessionCount = 1
    /\ operation \in {"UPLOAD", "DOWNLOAD"}
    /\ fsize \in [1..1 -> (0..MaxBlocks) \cup {ThresholdBlocks - 1, ThresholdBlocks}]
    /\ faultBudget = MaxFaults
    /\ InitBatch

\* The batches on which termination is checked: one session, small files
\* for up to MaxConcurrency workers, or one large upload for one worker.
InitCancel ==
    /\ concurrency \in 1..MaxConcurrency
    /\ sessionCount = 1
    /\ operation \in {"UPLOAD", "DOWNLOAD"}
    /\ \E n \in 1..MaxJobs : fsize \in [1..n -> (0..MaxBufs) \cup {ThresholdBlocks}]
    /\ \A j \in DOMAIN fsize :
          fsize[j] >= ThresholdBlocks => (Len(fsize) = 1 /\ concurrency = 1 /\ operation = "UPLOAD")
    /\ faultBudget = MaxPoolFaults
    /\ InitBatch

\* The context handed to the operation is cancelled by its owner while the
\* operation runs.
Cancel ==
    /\ upc # "idle"
    /\ epc # "done"
    /\ ~ctxDone
    /\ ctxDone' = TRUE
    /\ queuedAtCancel' = Len(jobs)
    /\ racers' = {w \in Workers : wpc[w] = "pop"}
    /\ UNCHANGED <<qvars, monvars, mcallvars, cfgvars, unleashvars, wvars, iovars,
                   usedSess, attemptLog, result, xfers, mpCalls>>

\* StartUnleash: GlobalMonitor.SetRunning(true)
UnleashSetRunning ==
    /\ upc = "start"
    /\ MuFree(mmu)
    /\ isRunning' = TRUE
    /\ upc' = "spawn"
    /\ UNCHANGED <<qvars, totalFiles, filesDone, totalBytes, bytesDone, currentFile, mmu,
                   mcallvars, cfgvars, ctxDone, spawnI, wg, wvars, iovars, histvars>>

\* StartUnleash: one iteration of the launch loop: Wg.Add(1), go func(i, sessions[i%n])
UnleashSpawn ==
    /\ upc = "spawn"
    /\ spawnI < concurrency
    /\ wg' = wg + 1
    /\ wsess' = [wsess EXCEPT ![spawnI] = AssignedSession(spawnI, sessionCount)]
    /\ wpc' = [wpc EXCEPT ![spawnI] = "select"]
    /\ spawnI' = spawnI + 1
    /\ UNCHANGED <<qvars, monvars, mcallvars, cfgvars, ctxDone, upc,
                   wjob, werr, attempt, lastErr, wpos, mpvars, iovars, histvars>>

\* StartUnleash: the launch loop is over; wp.Wg.Wait() returns
UnleashWait ==
    /\ upc = "spawn"
    /\ spawnI = concurrency
    /\ WaitReturns(wg)
    /\ upc' = "stop"
    /\ UNCHANGED <<qvars, monvars, mcallvars, cfgvars, ctxDone, spawnI, wg,
                   wvars, iovars, histvars>>

\* StartUnleash: GlobalMonitor.SetRunning(false), return
UnleashStop ==
    /\ upc = "stop"
    /\ MuFree(mmu)
    /\ isRunning' = FALSE
    /\ upc' = "returned"
    /\ UNCHANGED <<qvars, totalFiles, filesDone, totalBytes, bytesDone, currentFile, mmu,
                   mcallvars, cfgvars, ctxDone, spawnI, wg, wvars, iovars, histvars>>

\* Worker: select { case <-ctx.Done(): return; default: }
WorkerSelect(w) ==
    /\ wpc[w] = "select"
    /\ IF SelectDone(ctxDone)
       THEN /\ wpc' = [wpc EXCEPT ![w] = "exited"]
            /\ wg' = WgDone(wg)
       ELSE /\ wpc' = [wpc EXCEPT ![w] = "pop"]
            /\ wg' = wg
    /\ UNCHANGED <<qvars, monvars, mcallvars, cfgvars, ctxDone, upc, spawnI,
                   wsess, wjob, werr, attempt, lastErr, wpos, mpvars, iovars, histvars>>

\* Worker: job := wp.Queue.Pop(), entering the queue's critical section
WorkerPopLock(w) ==
    /\ wpc[w] = "pop"
    /\ PopLock(QP(w))
    /\ UNCHANGED <<monvars, mcallvars, poolvars>>

WorkerPopRead(w) ==
    /\ wpc[w] = "pop"
    /\ PopRead(QP(w))
    /\ UNCHANGED <<monvars, mcallvars, poolvars>>

\* Worker: Pop returned nil: return (with the deferred wp.Wg.Done())
WorkerPopNil(w) ==
    /\ wpc[w] = "pop"
    /\ PopNil(QP(w))
    /\ wpc' = [wpc EXCEPT ![w] = "exited"]
    /\ wg' = WgDone(wg)
    /\ UNCHANGED <<monvars, mcallvars, cfgvars, ctxDone, upc, spawnI,
                   wsess, wjob, werr, attempt, lastErr, wpos, mpvars, iovars, histvars>>

\* Worker: Pop returned a job
WorkerPopShift(w) ==
    /\ wpc[w] = "pop"
    /\ PopShift(QP(w))
    /\ wjob' = [wjob EXCEPT ![w] = qjob[QP(w)]]
    /\ wpc' = [wpc EXCEPT ![w] = "setfile"]
    /\ UNCHANGED <<monvars, mcallvars, cfgvars, ctxDone, unleashvars,
                   wsess, werr, attempt, lastErr, wpos, mpvars, iovars, histvars>>

(***************************************************************************)
(* The transfer of one job (transfer.go), run by worker w on session       *)
(* wsess[w].  Sizes are counted in blocks; a copy iteration moves a block. *)
(***************************************************************************)

\* nr of src.Read(buf): what is left of the source, at most a buffer
ReadLen(w) ==
    IF fsize[wjob[w]] - wpos[w] < ReadBlocks THEN fsize[wjob[w]] - wpos[w] ELSE ReadBlocks

\* Worker: if err != nil { continue }; GlobalMonitor.IncFileDone()
AlwaysInc(e) == "inc"
AfterTransfer(e) == IF e = "nil" THEN "inc" ELSE "failed"

\* The transfer function returns e to the worker loop (err = e)
Returns(w, e) ==
    /\ werr' = [werr EXCEPT ![w] = e]
    /\ result' = [result EXCEPT ![wjob[w]] = e]
    /\ wpc' = [wpc EXCEPT ![w] = AfterTransfer(e)]

\* An I/O call may fail as long as the fault budget of the batch allows
CanFault == faults < faultBudget

\* if fileSize >= MultipartThreshold
AboveThreshold(size) == size > MultipartThreshold
AtLeastThreshold(size) == size >= MultipartThreshold

\* The decision for job j, whose source file has fsize[j] blocks
IsLarge(j) == AtLeastThreshold(fsize[j] * BlockBytes)

\* src is opened anew by every attempt (os.Open / SftpClient.Open): its
\* read offset is 0 whatever the previous attempt had read
KeepOffset(pos) == pos
Reopen(pos) == 0

\* One attempt of the single-stream loop ended with error e:
\* lastErr = e; attempt++; leave the loop and return lastErr when out of range.
AttemptFails(w, e) ==
    /\ attemptLog' = [attemptLog EXCEPT ![w] = Append(@, e)]
    /\ wpos' = [wpos EXCEPT ![w] = Reopen(@)]
    /\ IF AttemptInRange(attempt[w] + 1)
       THEN /\ attempt' = [attempt EXCEPT ![w] = @ + 1]
            /\ lastErr' = [lastErr EXCEPT ![w] = e]
            /\ wpc' = [wpc EXCEPT ![w] = "open"]
            /\ UNCHANGED <<werr, result>>
       ELSE /\ attempt' = [attempt EXCEPT ![w] = 0]
            /\ lastErr' = [lastErr EXCEPT ![w] = "nil"]
            /\ Returns(w, e)

\* One attempt ended with nil: the loop is left and nil is returned.
AttemptSucceeds(w) ==
    /\ lastErr' = [lastErr EXCEPT ![w] = "nil"]
    /\ attemptLog' = [attemptLog EXCEPT ![w] = Append(@, "nil")]
    /\ wpos' = [wpos EXCEPT ![w] = 0]
    /\ attempt' = [attempt EXCEPT ![w] = 0]
    /\ Returns(w, "nil")

\* Worker: the loop body is over; job and err go out of scope
EndIteration(w) ==
    /\ wpc' = [wpc EXCEPT ![w] = "select"]
    /\ wjob' = [wjob EXCEPT ![w] = NoJob]
    /\ werr' = [werr EXCEPT ![w] = "none"]
    /\ usedSess' = [usedSess EXCEPT ![w] = {}]
    /\ attemptLog' = [attemptLog EXCEPT ![w] = <<>>]

OpenStream(s) == streams' = [streams EXCEPT ![s] = @ + 1]
CloseStream(s) == streams' = [streams EXCEPT ![s] = @ - 1]
Touch(w) == usedSess' = [usedSess EXCEPT ![w] = @ \cup {wsess[w]}]

\* Worker: GlobalMonitor.SetCurrentFile(job.RemotePath), then the call of
\* DownloadFileWithProgress or UploadFileWithProgress with (ctx, sess, job)
WorkerDispatch(w) ==
    /\ wpc[w] = "setfile"
    /\ MuFree(mmu)
    /\ currentFile' = RemotePath(wjob[w])
    /\ xfers' = [xfers EXCEPT ![wjob[w]] = @ + 1]
    /\ IF operation = "DOWNLOAD"
       THEN /\ wpc' = [wpc EXCEPT ![w] = "open"]
            /\ attempt' = [attempt EXCEPT ![w] = 1]
       ELSE /\ wpc' = [wpc EXCEPT ![w] = "upstat"]
            /\ attempt' = attempt
    /\ UNCHANGED <<qvars, totalFiles, filesDone, totalBytes, bytesDone, isRunning, mmu,
                   mcallvars, cfgvars, ctxDone, unleashvars, wsess, wjob, werr, lastErr, wpos,
                   mpvars, iovars, usedSess, attemptLog, result, queuedAtCancel, racers, mpCalls>>

\* UploadFileWithProgress: os.Stat(localPath), then the decision by size
UploadStat(w) ==
    /\ wpc[w] = "upstat"
    /\ \/ /\ CanFault
          /\ faults' = faults + 1
          /\ Returns(w, "io")
          /\ attempt' = attempt
          /\ mpCalls' = mpCalls
       \/ /\ faults' = faults
          /\ UNCHANGED <<werr, result>>
          /\ IF IsLarge(wjob[w])
             THEN /\ wpc' = [wpc EXCEPT ![w] = "mpcreate"]
                  /\ attempt' = attempt
                  /\ mpCalls' = [mpCalls EXCEPT ![wjob[w]] = @ + 1]
             ELSE /\ wpc' = [wpc EXCEPT ![w] = "open"]
                  /\ attempt' = [attempt EXCEPT ![w] = 1]
                  /\ mpCalls' = mpCalls
    /\ UNCHANGED <<qvars, monvars, mcallvars, cfgvars, ctxDone, unleashvars,
                   wsess, wjob, lastErr, wpos, mpvars, streams, dst,
                   usedSess, attemptLog, xfers, queuedAtCancel, racers>>

\* Single stream, first call of an attempt.
\*   download: src, err := session.SftpClient.Open(remotePath)
\*   upload:   src, err := os.Open(localPath); info, err := src.Stat()
SingleOpen(w) ==
    /\ wpc[w] = "open"
    /\ \/ /\ CanFault
          /\ faults' = faults + 1
          /\ AttemptFails(w, "io")
          /\ streams' = streams
       \/ /\ faults' = faults
          /\ wpc' = [wpc EXCEPT ![w] = "create"]
          /\ IF operation = "DOWNLOAD" THEN OpenStream(wsess[w]) ELSE streams' = streams
          /\ UNCHANGED <<attempt, lastErr, wpos, attemptLog, werr, result>>
    /\ IF operation = "DOWNLOAD" THEN Touch(w) ELSE usedSess' = usedSess
    /\ UNCHANGED <<qvars, monvars, mcallvars, cfgvars, ctxDone, unleashvars,
                   wsess, wjob, mpvars, dst, xfers, queuedAtCancel, racers, mpCalls>>

\* os.Create / SftpClient.Create open the destination with O_TRUNC: of the
\* n blocks it held none is left.
KeepContent(n) == IF n < 0 THEN 0 ELSE n
Truncate(n) == 0

\* Single stream, creation of the destination (truncating it).
\*   download: dst, err := os.Create(localPath)
\*   upload:   dst, err := session.SftpClient.Create(remotePath)
SingleCreate(w) ==
    /\ wpc[w] = "create"
    /\ \/ /\ CanFault
          /\ faults' = faults + 1
          /\ AttemptFails(w, "io")
          /\ IF operation = "DOWNLOAD" THEN CloseStream(wsess[w]) ELSE streams' = streams
          /\ dst' = dst
       \/ /\ faults' = faults
          /\ wpc' = [wpc EXCEPT ![w] = "copyCheck"]
          /\ wpos' = [wpos EXCEPT ![w] = Reopen(@)]
          /\ IF operation = "UPLOAD" THEN OpenStream(wsess[w]) ELSE streams' = streams
          /\ dst' = [dst EXCEPT ![wjob[w]] = Truncate(@)]
          /\ UNCHANGED <<attempt, lastErr, attemptLog, werr, result>>
    /\ IF operation = "UPLOAD" THEN Touch(w) ELSE usedSess' = usedSess
    /\ UNCHANGED <<qvars, monvars, mcallvars, cfgvars, ctxDone, unleashvars,
                   wsess, wjob, mpvars, xfers, queuedAtCancel, racers, mpCalls>>

\* copyWithContext: case <-ctx.Done()
CopyNeverCancelled(done) == FALSE
CopyCancelled(done) == done

\* copyWithContext: select { case <-ctx.Done(): return written, ctx.Err(); default: }
CopyCheck(w) ==
    /\ wpc[w] = "copyCheck"
    /\ IF CopyCancelled(ctxDone)
       THEN /\ AttemptFails(w, "ctx")
            /\ CloseStream(wsess[w])
       ELSE /\ wpc' = [wpc EXCEPT ![w] = "copyIO"]
            /\ UNCHANGED <<attempt, lastErr, wpos, attemptLog, werr, result, streams>>
    /\ UNCHANGED <<qvars, monvars, mcallvars, cfgvars, ctxDone, unleashvars,
                   wsess, wjob, mpvars, dst, faults, usedSess, xfers, queuedAtCancel, racers, mpCalls>>

\* copyWithContext: nr, er := src.Read(buf) through the ProgressTracker
\* (AddBytes(nr)), then dst.Write(buf[0:nr]); at the end of the source Read
\* returns io.EOF, the copy returns nil and the attempt syncs the metadata.
CopyIO(w) ==
    /\ wpc[w] = "copyIO"
    /\ \/ \* the Read fails
          /\ CanFault
          /\ faults' = faults + 1
          /\ AttemptFails(w, "io")
          /\ CloseStream(wsess[w])
          /\ UNCHANGED <<bytesDone, dst>>
       \/ \* the Read delivers a block, the Write fails or is short
          /\ CanFault
          /\ wpos[w] < fsize[wjob[w]]
          /\ faults' = faults + 1
          /\ bytesDone' = AddInt64(bytesDone, ReadLen(w))
          /\ AttemptFails(w, "io")
          /\ CloseStream(wsess[w])
          /\ dst' = dst
       \/ \* the Read delivers a block, the Write stores it
          /\ wpos[w] < fsize[wjob[w]]
          /\ bytesDone' = AddInt64(bytesDone, ReadLen(w))
          /\ dst' = [dst EXCEPT ![wjob[w]] = @ + ReadLen(w)]
          /\ wpos' = [wpos EXCEPT ![w] = @ + ReadLen(w)]
          /\ wpc' = [wpc EXCEPT ![w] = "copyCheck"]
          /\ UNCHANGED <<attempt, lastErr, attemptLog, werr, result, streams, faults>>
       \/ \* io.EOF
          /\ wpos[w] = fsize[wjob[w]]
          /\ AttemptSucceeds(w)
          /\ CloseStream(wsess[w])
          /\ UNCHANGED <<bytesDone, dst, faults>>
    /\ Touch(w)
    /\ UNCHANGED <<qvars, totalFiles, filesDone, totalBytes, currentFile, isRunning, mmu,
                   mcallvars, cfgvars, ctxDone, unleashvars,
                   wsess, wjob, mpvars, xfers, queuedAtCancel, racers, mpCalls>>

\* Worker: GlobalMonitor.IncFileDone() after a transfer that returned nil
WorkerInc(w) ==
    /\ wpc[w] = "inc"
    /\ filesDone' = AddInt64(filesDone, 1)
    /\ EndIteration(w)
    /\ UNCHANGED <<qvars, totalFiles, totalBytes, bytesDone, currentFile, isRunning, mmu,
                   mcallvars, cfgvars, ctxDone, unleashvars,
                   wsess, attempt, lastErr, wpos, mpvars, iovars, result, xfers,
                   queuedAtCancel, racers, mpCalls>>

\* Worker: if err != nil { continue }
WorkerContinue(w) ==
    /\ wpc[w] = "failed"
    /\ EndIteration(w)
    /\ UNCHANGED <<qvars, monvars, mcallvars, cfgvars, ctxDone, unleashvars,
                   wsess, attempt, lastErr, wpos, mpvars, iovars, result, xfers,
                   queuedAtCancel, racers, mpCalls>>

(***************************************************************************)
(* uploadMultipart (transfer.go 177-288): the 16 sub-workers of worker w   *)
(* are counted by phase: not yet opened, copying, exited.                  *)
(***************************************************************************)

\* uploadMultipart: f, err := session.SftpClient.Create(remotePath); f.Close();
\* on an error the upload falls back to uploadSingleStream.
MpCreate(w) ==
    /\ wpc[w] = "mpcreate"
    /\ \/ /\ CanFault
          /\ faults' = faults + 1
          /\ wpc' = [wpc EXCEPT ![w] = "open"]
          /\ attempt' = [attempt EXCEPT ![w] = 1]
          /\ UNCHANGED <<dst, mpPending>>
       \/ /\ faults' = faults
          /\ dst' = [dst EXCEPT ![wjob[w]] = Truncate(@)]
          /\ mpPending' = [mpPending EXCEPT ![w] = MultipartChunks]
          /\ wpc' = [wpc EXCEPT ![w] = "mpwait"]
          /\ attempt' = attempt
    /\ Touch(w)
    /\ UNCHANGED <<qvars, monvars, mcallvars, cfgvars, ctxDone, unleashvars,
                   wsess, wjob, werr, lastErr, wpos, mpOpen, mpErrs, streams,
                   attemptLog, result, xfers, queuedAtCancel, racers, mpCalls>>

\* A sub-worker starts: session.SftpClient.OpenFile(remotePath, O_WRONLY),
\* os.Open(localPath) and the two Seeks; any error goes to errChan.
SubOpen(w) ==
    /\ wpc[w] = "mpwait"
    /\ mpPending[w] > 0
    /\ mpPending' = [mpPending EXCEPT ![w] = @ - 1]
    /\ \/ /\ CanFault
          /\ faults' = faults + 1
          /\ mpErrs' = [mpErrs EXCEPT ![w] = 1]
          /\ UNCHANGED <<mpOpen, streams>>
       \/ /\ faults' = faults
          /\ mpOpen' = [mpOpen EXCEPT ![w] = @ + 1]
          /\ OpenStream(wsess[w])
          /\ mpErrs' = mpErrs
    /\ Touch(w)
    /\ UNCHANGED <<qvars, monvars, mcallvars, cfgvars, ctxDone, unleashvars,
                   wpc, wsess, wjob, werr, attempt, lastErr, wpos,
                   dst, attemptLog, result, xfers, queuedAtCancel, racers, mpCalls>>

\* A sub-worker runs its copy loop over its range (one block) and exits:
\* every iteration checks ctx.Done(), reads, writes, AddBytes(n); the Read
\* after the range returns io.EOF.
SubCopy(w) ==
    /\ wpc[w] = "mpwait"
    /\ mpOpen[w] > 0
    /\ mpOpen' = [mpOpen EXCEPT ![w] = @ - 1]
    /\ CloseStream(wsess[w])
    /\ \/ \* cancelled before the block was written
          /\ ctxDone
          /\ mpErrs' = [mpErrs EXCEPT ![w] = 1]
          /\ UNCHANGED <<bytesDone, dst, faults>>
       \/ \* cancelled after the block was written, before the io.EOF
          /\ ctxDone
          /\ mpErrs' = [mpErrs EXCEPT ![w] = 1]
          /\ bytesDone' = AddInt64(bytesDone, 1)
          /\ dst' = [dst EXCEPT ![wjob[w]] = @ + 1]
          /\ faults' = faults
       \/ \* the Read or the Write fails
          /\ CanFault
          /\ faults' = faults + 1
          /\ mpErrs' = [mpErrs EXCEPT ![w] = 1]
          /\ UNCHANGED <<bytesDone, dst>>
       \/ \* the range is written
          /\ ~ctxDone
          /\ bytesDone' = AddInt64(bytesDone, 1)
          /\ dst' = [dst EXCEPT ![wjob[w]] = @ + 1]
          /\ UNCHANGED <<mpErrs, faults>>
    /\ Touch(w)
    /\ UNCHANGED <<qvars, totalFiles, filesDone, totalBytes, currentFile, isRunning, mmu,
                   mcallvars, cfgvars, ctxDone, unleashvars,
                   wpc, wsess, wjob, werr, attempt, lastErr, wpos,
                   mpPending, attemptLog, result, xfers, queuedAtCancel, racers, mpCalls>>

\* uploadMultipart: if len(errChan) > 0 { return <-errChan }
NoChunkFailed(n) == FALSE
AnyChunkFailed(n) == n > 0

\* uploadMultipart: wg.Wait(); close(errChan); an error if len(errChan) > 0,
\* else the metadata sync and nil.  UploadFileWithProgress returns nil on nil
\* and otherwise calls uploadSingleStream.
MpJoin(w) ==
    /\ wpc[w] = "mpwait"
    /\ WaitReturns(mpPending[w] + mpOpen[w])
    /\ mpErrs' = [mpErrs EXCEPT ![w] = 0]
    /\ IF AnyChunkFailed(mpErrs[w])
       THEN /\ wpc' = [wpc EXCEPT ![w] = "open"]
            /\ attempt' = [attempt EXCEPT ![w] = 1]
            /\ UNCHANGED <<werr, result, usedSess>>
       ELSE /\ Returns(w, "nil")
            /\ attempt' = attempt
            /\ Touch(w)
    /\ UNCHANGED <<qvars, monvars, mcallvars, cfgvars, ctxDone, unleashvars,
                   wsess, wjob, lastErr, wpos, mpPending, mpOpen, iovars,
                   attemptLog, xfers, queuedAtCancel, racers, mpCalls>>

NextPool ==
    \/ Cancel
    \/ UnleashSetRunning
    \/ UnleashSpawn
    \/ UnleashWait
    \/ UnleashStop
    \/ \E w \in Workers : WorkerSelect(w)
    \/ \E w \in Workers : WorkerPopLock(w)
    \/ \E w \in Workers : WorkerPopRead(w)
    \/ \E w \in Workers : WorkerPopNil(w)
    \/ \E w \in Workers : WorkerPopShift(w)
    \/ \E w \in Workers : WorkerDispatch(w)
    \/ \E w \in Workers : UploadStat(w)
    \/ \E w \in Workers : SingleOpen(w)
    \/ \E w \in Workers : SingleCreate(w)
    \/ \E w \in Workers : CopyCheck(w)
    \/ \E w \in Workers : CopyIO(w)
    \/ \E w \in Workers : WorkerInc(w)
    \/ \E w \in Workers : WorkerContinue(w)
    \/ \E w \in Workers : MpCreate(w)
    \/ \E w \in Workers : SubOpen(w)
    \/ \E w \in Workers : SubCopy(w)
    \/ \E w \in Workers : MpJoin(w)

SpecPool == InitPool /\ [][NextPool]_vars

SpecTransfer == InitTransfer /\ [][NextPool]_vars

\* The steps of the goroutine that called StartUnleash
UnleashStep == UnleashSetRunning \/ UnleashSpawn \/ UnleashWait \/ UnleashStop

\* The steps of worker goroutine w, sub-workers included
WorkerStep(w) ==
    /\ w \in Workers
    /\ \/ WorkerSelect(w) \/ WorkerPopLock(w) \/ WorkerPopRead(w) \/ WorkerPopNil(w)
       \/ WorkerPopShift(w) \/ WorkerDispatch(w) \/ UploadStat(w) \/ SingleOpen(w)
       \/ SingleCreate(w) \/ CopyCheck(w) \/ CopyIO(w) \/ WorkerInc(w)
       \/ WorkerContinue(w) \/ MpCreate(w) \/ SubOpen(w) \/ SubCopy(w) \/ MpJoin(w)

\* The Go scheduler runs every runnable goroutine, and every I/O call returns.
SpecPoolFair ==
    /\ InitCancel
    /\ [][NextPool]_vars
    /\ WF_vars(UnleashStep)
    /\ \A w \in 0 .. (MaxConcurrency - 1) : WF_vars(WorkerStep(w))

\* A worker that holds a job, or is inside the call that transfers it
Holding(w) == wjob[w] # NoJob
Alive(w) == wpc[w] \notin {"none", "exited"}
InSingleStream(w) == wpc[w] \in {"open", "create", "copyCheck", "copyIO"}
Returned(w) == wpc[w] \in {"inc", "failed"}

\* C3: a job of the queue is handed to at most one worker of the pool: Pop
\* returns no job twice, no two workers hold the same job, and no job is
\* transferred more than once, under every interleaving of the workers.
C3_OneWorkerPerJob ==
    /\ \A i, k \in 1..Len(popped) : i # k => popped[i] # popped[k]
    /\ \A w1, w2 \in Workers : (w1 # w2 /\ Holding(w1)) => wjob[w1] # wjob[w2]
    /\ \A j \in BatchJobs : xfers[j] <= 1

\* Two workers transfer two different jobs at the same time, both obtained
\* from Pop calls that overlapped the other worker's loop.
C3_Witness ==
    /\ concurrency >= 2
    /\ Len(popped) >= 2
    /\ \E w1, w2 \in Workers :
          /\ w1 # w2
          /\ wpc[w1] \in {"copyCheck", "copyIO", "mpwait"}
          /\ wpc[w2] \in {"copyCheck", "copyIO", "mpwait"}

\* C5: a single-stream transfer makes at most three attempts; it starts no
\* attempt after one that succeeded; when it returns, it returns the outcome
\* of its last attempt, which is nil as soon as one attempt succeeded (so
\* fail, fail, succeed returns nil) and an error only after three failures.
C5_RetryThreeAttempts ==
    \A w \in Workers :
        /\ Len(attemptLog[w]) <= MaxAttempts
        /\ \A i \in 1..Len(attemptLog[w]) : attemptLog[w][i] = "nil" => i = Len(attemptLog[w])
        /\ InSingleStream(w) =>
              /\ attempt[w] = Len(attemptLog[w]) + 1
              /\ \A i \in 1..Len(attemptLog[w]) : attemptLog[w][i] # "nil"
        /\ (Returned(w) /\ Len(attemptLog[w]) > 0) =>
              /\ werr[w] = attemptLog[w][Len(attemptLog[w])]
              /\ werr[w] # "nil" => Len(attemptLog[w]) = MaxAttempts

\* Attempts 1 and 2 failed, attempt 3 succeeded, and the transfer returned nil.
C5_Witness ==
    \E w \in Workers :
        /\ wpc[w] = "inc"
        /\ werr[w] = "nil"
        /\ attemptLog[w] = <<"io", "io", "nil">>

\* ceil(concurrency / sessionCount)
CeilDiv(c, n) == (c + n - 1) \div n

\* The workers of the pool bound to session s
BoundTo(s) == {w \in Workers : Alive(w) /\ wsess[w] = s}

\* C7: worker i is bound to session i mod sessionCount from its launch on,
\* and every session call of every transfer it runs goes to that session.
C7_StaticSessionBinding ==
    \A w \in Workers :
        /\ wpc[w] # "none" => wsess[w] = w % sessionCount
        /\ usedSess[w] \subseteq {w % sessionCount}

\* With two sessions, worker 1 is transferring a job over session 1 while
\* worker 0 is bound to session 0.
C7_Witness ==
    /\ sessionCount = 2
    /\ concurrency = 2
    /\ wsess[0] = 0
    /\ usedSess[1] = {1}
    /\ wpc[1] \in {"copyCheck", "copyIO", "mpwait"}

\* The streams that the workers bound to s may hold open: one per worker in
\* a single-stream transfer, MultipartChunks per worker in uploadMultipart
RECURSIVE StreamAllowance(_)
StreamAllowance(ws) ==
    IF ws = {} THEN 0
    ELSE LET w == CHOOSE x \in ws : TRUE
         IN  (IF wpc[w] = "mpwait" THEN MultipartChunks ELSE 1) + StreamAllowance(ws \ {w})

\* C8 as stated: never more than ceil(concurrency / sessionCount) open
\* transfer streams on one session, multipart uploads included.
C8_StreamsPerSession ==
    \A s \in Sessions : streams[s] <= CeilDiv(concurrency, sessionCount)

\* C8, amended: at most ceil(concurrency / sessionCount) workers are bound to
\* one session; a session carries at most one open stream per bound worker
\* in a single-stream transfer and at most MultipartChunks per bound worker
\* in a multipart upload, hence at most ceil(concurrency / sessionCount)
\* streams while none of its workers is in a multipart upload.
C8_WorkersPerSession ==
    \A s \in Sessions :
        /\ Cardinality(BoundTo(s)) <= CeilDiv(concurrency, sessionCount)
        /\ streams[s] <= StreamAllowance(BoundTo(s))
        /\ streams[s] <= MultipartChunks * CeilDiv(concurrency, sessionCount)
        /\ (\A w \in BoundTo(s) : wpc[w] # "mpwait") =>
              streams[s] <= CeilDiv(concurrency, sessionCount)

\* Two workers share the only session: one holds a single stream open while
\* the other has more than one sub-worker stream open on the same session.
C8_Witness ==
    /\ sessionCount = 1
    /\ concurrency = 2
    /\ \E w1, w2 \in Workers :
          /\ wpc[w1] = "mpwait" /\ mpOpen[w1] >= 2
          /\ wpc[w2] \in {"copyCheck", "copyIO"}
    /\ streams[0] >= 3

\* C9: running is set to true before any worker is launched; while a worker
\* is alive running is true; running is set to false, and StartUnleash
\* returns, only after every worker has exited.
C9_RunningBracketsWorkers ==
    /\ upc = "start" => \A w \in Workers : wpc[w] = "none"
    /\ (\E w \in Workers : Alive(w)) => isRunning
    /\ upc \in {"stop", "returned"} => \A w \in Workers : wpc[w] = "exited"
    /\ ~isRunning => (upc = "returned" /\ \A w \in Workers : wpc[w] = "exited")

\* One worker has exited, another is still transferring, StartUnleash is
\* blocked in Wait and running is still true.
C9_Witness ==
    /\ upc = "spawn"
    /\ spawnI = concurrency
    /\ isRunning
    /\ \E w1, w2 \in Workers :
          /\ wpc[w1] = "exited"
          /\ wpc[w2] \in {"copyCheck", "copyIO", "mpwait"}

\* C10: once the context is cancelled, every worker exits and StartUnleash
\* returns; when jobs were still queued at the cancellation, these jobs are
\* not completed, so FilesDone ends below the number of jobs of the batch.
C10_CancelTerminates ==
    /\ ctxDone ~> (upc = "returned" /\ \A w \in Workers : wpc[w] = "exited")
    /\ [](upc = "returned" /\ queuedAtCancel > 0 =>
             /\ filesDone < Len(fsize)
             /\ filesDone + queuedAtCancel <= Len(fsize))

\* StartUnleash has returned from a batch that was cancelled after its first
\* job was completed and while another job was still queued.
C10_Witness ==
    /\ ctxDone
    /\ upc = "returned"
    /\ queuedAtCancel >= 1
    /\ filesDone >= 1
    /\ \A w \in Workers : wpc[w] = "exited"

(***************************************************************************)
(* Engine.StartTransfer, upload (engine.go 257-367): the scan, the         *)
(* directory phase, the seeding of the queue and the launch of the pool.   *)
(* The directory workers are anonymous and identical; they are counted by  *)
(* position.                                                               *)
(***************************************************************************)

DirCreationWorkers == 8

\* sort.Slice(foldersToCreate, by len), on paths of distinct lengths
RECURSIVE InsertByLen(_, _)
InsertByLen(x, q) ==
    IF q = <<>> THEN <<x>>
    ELSE IF x < q[1] THEN <<x>> \o q
    ELSE <<q[1]>> \o InsertByLen(x, Tail(q))

RECURSIVE SortByLen(_)
SortByLen(q) == IF q = <<>> THEN <<>> ELSE InsertByLen(q[1], SortByLen(Tail(q)))

\* The directory orders filepath.Walk can report: the paths of k nested or
\* sibling directories, named by their lengths 1..k
WalkOrders == UNION {{q \in [1..k -> 1..k] : \A a, b \in 1..k : a # b => q[a] # q[b]} : k \in 0..MaxDirs}

\* StartTransfer is called on a fresh Engine: empty queue, monitor at its zero
\* value, no pool yet.  An upload of up to MaxJobs small files, or of one
\* large file, below up to MaxDirs directories.
InitEngine ==
    /\ concurrency \in 1..MaxConcurrency
    /\ sessionCount \in 0..MaxSessions
    /\ operation = "UPLOAD"
    /\ \E n \in 0..MaxJobs : fsize \in [1..n -> (0..MaxBufs) \cup {ThresholdBlocks}]
    /\ \A j \in DOMAIN fsize : fsize[j] >= ThresholdBlocks => (Len(fsize) = 1 /\ concurrency = 1)
    /\ faultBudget = MaxPoolFaults
    /\ InitWorkers
    /\ WalkIdle
    /\ upc = "idle"
    /\ jobs = <<>>
    /\ added = <<>>
    /\ InitMonitorVars
    /\ epc = "start"
    /\ walked \in WalkOrders
    /\ foldersToCreate = <<>>
    /\ dirChan = <<>>
    /\ dirI = 0
    /\ dirIdle = 0
    /\ dirBusy = {}
    /\ dirWg = 0
    /\ doneCount = 0
    /\ made = {}
    /\ addI = 0
    /\ hasClient \in BOOLEAN
    /\ eres = "none"

EngineOnly == UNCHANGED <<qvars, monvars, mcallvars, concurrency, sessionCount, operation,
                          fsize, faultBudget, splitvars, statvars, dlvars, sortvars, ctxDone, unleashvars, wvars, streams, dst, histvars>>

\* len(sessions) == 0 || sessions[0].SftpClient == nil
OnlyNoSessions(n, has) == n = 0
NoActiveSessions(n, has) == n = 0 \/ ~has

\* if len(sessions) == 0 || sessions[0].SftpClient == nil {
\*     return fmt.Errorf("no_active_sessions") }
EngStart ==
    /\ epc = "start"
    /\ IF NoActiveSessions(sessionCount, hasClient)
       THEN /\ epc' = "error"
            /\ eres' = "no_active_sessions"
       ELSE /\ epc' = "walk"
            /\ eres' = eres
    /\ UNCHANGED <<hasClient, walked, foldersToCreate, dirChan, dirI, dirIdle, dirBusy, dirWg,
                   doneCount, made, addI, faults>>
    /\ EngineOnly

\* filepath.Walk collects foldersToCreate and filesToTransfer; sort.Slice
\* orders the folders by path length; dirCount := len(foldersToCreate)
EngWalk ==
    /\ epc = "walk"
    /\ foldersToCreate' = SortByLen(walked)
    /\ epc' = IF Len(walked) > 0 THEN "fill" ELSE "count"
    /\ UNCHANGED <<hasClient, eres, walked, dirChan, dirI, dirIdle, dirBusy, dirWg, doneCount, made, addI, faults>>
    /\ EngineOnly

\* dirChan := make(chan string, dirCount); every folder is sent; close(dirChan)
EngFill ==
    /\ epc = "fill"
    /\ dirChan' = foldersToCreate
    /\ epc' = "spawnDirs"
    /\ UNCHANGED <<hasClient, eres, walked, foldersToCreate, dirI, dirIdle, dirBusy, dirWg, doneCount, made,
                   addI, faults>>
    /\ EngineOnly

\* for i := 0; i < DirCreationWorkers; i++ { wg.Add(1); go func() {...}() }
EngSpawnDir ==
    /\ epc = "spawnDirs"
    /\ dirI < DirCreationWorkers
    /\ dirWg' = dirWg + 1
    /\ dirIdle' = dirIdle + 1
    /\ dirI' = dirI + 1
    /\ UNCHANGED <<epc, hasClient, eres, walked, foldersToCreate, dirChan, dirBusy, doneCount, made, addI, faults>>
    /\ EngineOnly

\* Directory worker: for dir := range dirChan receives the next directory
DirRecv ==
    /\ dirIdle > 0
    /\ dirChan # <<>>
    /\ dirBusy' = dirBusy \cup {Head(dirChan)}
    /\ dirChan' = Tail(dirChan)
    /\ dirIdle' = dirIdle - 1
    /\ UNCHANGED <<epc, hasClient, eres, walked, foldersToCreate, dirI, dirWg, doneCount, made, addI, faults>>
    /\ EngineOnly

\* current := atomic.AddInt32(&doneCount, 1), whatever MkdirAll returned
CountedIfMade(ok) == IF ok THEN 1 ELSE 0
Counted(ok) == 1

\* Directory worker: _ = mainSession.SftpClient.MkdirAll(dir) returns, its
\* error ignored; atomic.AddInt32(&doneCount, 1); back to the range
DirMkdir(d) ==
    /\ d \in dirBusy
    /\ \/ /\ made' = made \cup {d}
          /\ faults' = faults
          /\ doneCount' = doneCount + Counted(TRUE)
       \/ /\ CanFault
          /\ faults' = faults + 1
          /\ made' = made
          /\ doneCount' = doneCount + Counted(FALSE)
    /\ dirBusy' = dirBusy \ {d}
    /\ dirIdle' = dirIdle + 1
    /\ UNCHANGED <<epc, hasClient, eres, walked, foldersToCreate, dirChan, dirI, dirWg, addI>>
    /\ EngineOnly

\* Directory worker: the range ends on the closed, empty channel; defer wg.Done()
DirExit ==
    /\ dirIdle > 0
    /\ dirChan = <<>>
    /\ dirIdle' = dirIdle - 1
    /\ dirWg' = WgDone(dirWg)
    /\ UNCHANGED <<epc, hasClient, eres, walked, foldersToCreate, dirChan, dirI, dirBusy, doneCount, made,
                   addI, faults>>
    /\ EngineOnly

\* wg.Wait() of the directory phase returns
EngDirWait ==
    /\ epc = "spawnDirs"
    /\ dirI = DirCreationWorkers
    /\ WaitReturns(dirWg)
    /\ epc' = "count"
    /\ UNCHANGED <<hasClient, eres, walked, foldersToCreate, dirChan, dirI, dirIdle, dirBusy, dirWg,
                   doneCount, made, addI, faults>>
    /\ EngineOnly

\* if fileCount == 0
NeverNoFiles(n) == FALSE
NoFiles(n) == n = 0

\* fileCount := len(filesToTransfer); if fileCount == 0 { return nil }
EngCount ==
    /\ epc = "count"
    /\ epc' = IF NoFiles(Len(fsize)) THEN "done" ELSE "queue"
    /\ eres' = IF NoFiles(Len(fsize)) THEN "nil" ELSE eres
    /\ UNCHANGED <<hasClient, walked, foldersToCreate, dirChan, dirI, dirIdle, dirBusy, dirWg,
                   doneCount, made, addI, faults>>
    /\ EngineOnly

\* for _, job := range filesToTransfer { e.Queue.Add(job) }
EngAdd ==
    /\ epc = "queue"
    /\ addI < Len(fsize)
    /\ MuFree(mu)
    /\ jobs' = AppendJob(jobs, addI + 1)
    /\ added' = Append(added, addI + 1)
    /\ addI' = addI + 1
    /\ UNCHANGED <<mu, qpc, qjob, qret, popped, monvars, mcallvars,
                   concurrency, sessionCount, operation, fsize, faultBudget, splitvars, statvars, dlvars, sortvars,
                   epc, hasClient, eres, walked, foldersToCreate, dirChan, dirI, dirIdle, dirBusy, dirWg,
                   doneCount, made, ctxDone, unleashvars, wvars, iovars, histvars>>

\* Reset: m.lastBytes = 0; m.lastCheck = time.Now(); m.currentSpeed = 0
ResetBaseline ==
    /\ lastBytes' = 0
    /\ lastCheck' = now
    /\ currentSpeed' = ZeroSpeed

\* The loop that enqueues has run to its end: the statement after it is reached
SomeEnqueued(n, total) == n <= total
AllEnqueued(n, total) == n = total

\* GlobalMonitor.Reset(fileCount, totalBytes); NewWorkerPool(concurrency,
\* e.Queue); the call of StartUnleash
EngReset ==
    /\ epc = "queue"
    /\ AllEnqueued(addI, Len(fsize))
    /\ MuFree(mmu)
    /\ totalFiles' = Len(fsize)
    /\ totalBytes' = SumSizes(fsize)
    /\ filesDone' = 0
    /\ bytesDone' = 0
    /\ currentFile' = Placeholder
    /\ isRunning' = TRUE
    /\ epc' = "unleash"
    /\ upc' = "start"
    /\ ResetBaseline
    /\ UNCHANGED <<qvars, mmu, mcallvars,
                   concurrency, sessionCount, operation, fsize, faultBudget, splitvars, dlvars, sortvars,
                   spc, snap, snapEpoch, filesPassed, now, sNow, snapSpeed,
                   hasClient, eres, walked, foldersToCreate, dirChan, dirI, dirIdle, dirBusy, dirWg,
                   doneCount, made, addI, ctxDone, spawnI, wg, wvars, iovars, histvars>>

\* StartUnleash has returned: return nil
EngReturn ==
    /\ epc = "unleash"
    /\ upc = "returned"
    /\ epc' = "done"
    /\ eres' = "nil"
    /\ UNCHANGED <<hasClient, walked, foldersToCreate, dirChan, dirI, dirIdle, dirBusy, dirWg,
                   doneCount, made, addI, faults>>
    /\ EngineOnly

\* The engine hands the pool a context that is never cancelled.
NextEngine ==
    \/ EngStart
    \/ EngWalk
    \/ EngFill
    \/ EngSpawnDir
    \/ DirRecv
    \/ \E d \in 1..MaxDirs : DirMkdir(d)
    \/ DirExit
    \/ EngDirWait
    \/ EngCount
    \/ EngAdd
    \/ EngReset
    \/ EngReturn
    \/ UnleashStep
    \/ \E w \in Workers : WorkerStep(w)

SpecEngine == InitEngine /\ [][NextEngine]_vars

\* Every directory-creation call has returned and every directory worker
\* that was launched has exited
DirPhaseOver ==
    /\ dirChan = <<>>
    /\ dirBusy = {}
    /\ dirIdle = 0
    /\ dirWg = 0
    /\ doneCount = Len(walked)
    /\ Len(walked) > 0 => dirI = DirCreationWorkers

\* A file job has been queued for or taken by a worker, or a file is written
FileWorkStarted ==
    \/ upc # "idle"
    \/ popped # <<>>
    \/ \E w \in Workers : Alive(w) \/ qpc[QP(w)] # "idle"
    \/ \E j \in BatchJobs : dst[j] # -1
    \/ \E s \in Sessions : streams[s] > 0

\* C6: in an upload no worker is launched, no file job is popped and no file
\* is written before every MkdirAll call of the directory plan has returned
\* and all DirCreationWorkers directory workers have exited.
C6_DirectoryBarrier == FileWorkStarted => DirPhaseOver

\* A pool worker is writing a file after a directory phase in which the 8
\* workers created MaxDirs directories.
C6_Witness ==
    /\ Len(walked) = MaxDirs
    /\ doneCount = MaxDirs
    /\ dirI = DirCreationWorkers
    /\ \E w \in Workers : wpc[w] = "copyIO" /\ dst[wjob[w]] >= 0

\* Jobs popped since cancellation was triggered
PoppedAfterCancel == queuedAtCancel - Len(jobs)

\* C11 as stated: once the signal is set no worker pops another job, and a
\* pool launched with the signal set pops nothing and completes no file.
C11_NoPopAfterCancel ==
    /\ [][ctxDone => popped' = popped]_vars
    /\ []((ctxDone /\ racers = {} /\ queuedAtCancel = Len(fsize)) =>
             (popped = <<>> /\ Len(jobs) = Len(fsize) /\ filesDone = 0))

\* C11, amended: every worker checks the signal before each Pop, so once the
\* signal is set only a worker that had passed its check before (and had not
\* popped yet) still pops, and it pops one job; when no worker was in that
\* window, in particular when the signal was set before the launch, no job
\* is popped, the queue keeps its length and FilesDone stays 0.
C11_CheckBeforePop ==
    ctxDone =>
        /\ \A w \in Workers : wpc[w] = "pop" => w \in racers
        /\ PoppedAfterCancel <= Cardinality(racers)
        /\ (racers = {} /\ queuedAtCancel = Len(fsize)) =>
              (popped = <<>> /\ Len(jobs) = Len(fsize) /\ filesDone = 0)

\* Two workers had passed their check when cancellation was triggered; each
\* popped one job afterwards, no job was completed after that, and the pool
\* has returned.
C11_Witness ==
    /\ ctxDone
    /\ Cardinality(racers) = 2
    /\ PoppedAfterCancel = 2
    /\ jobs = <<>>
    /\ filesDone = 0
    /\ upc = "returned"

\* An attempt of the worker's current transfer ended on ctx.Err()
Aborted(w) == \E i \in 1..Len(attemptLog[w]) : attemptLog[w][i] = "ctx"

\* C12: once a job's transfer has aborted on the cancellation signal, its
\* destination is not created, truncated or written again: the bytes it
\* holds stay as they were at the abort.
C12_NoRewriteAfterAbort ==
    [][\A j \in BatchJobs :
          (\E w \in Workers : wjob[w] = j /\ Aborted(w)) => dst'[j] = dst[j]]_vars

(***************************************************************************)
(* Client.Transfer (fileripper.go 63-70) returns what the context-taking   *)
(* Engine.StartTransfer returns.  That StartTransfer runs the batch with   *)
(* StartUnleash(ctx, sessions) and surfaces the triggering cancellation    *)
(* condition as the terminal result of the operation.                      *)
(***************************************************************************)

\* The terminal result of an operation whose batch has ended
TerminalNil(done) == "nil"
TerminalResult(done) == IF done THEN "ctx" ELSE "nil"

\* StartUnleash has returned; StartTransfer and Client.Transfer return
CtxEngReturn ==
    /\ epc = "unleash"
    /\ upc = "returned"
    /\ epc' = "done"
    /\ eres' = TerminalResult(ctxDone)
    /\ UNCHANGED <<qvars, monvars, mcallvars, concurrency, sessionCount, operation, fsize,
                   faultBudget, splitvars, statvars, dlvars, sortvars, walked, foldersToCreate, dirChan, dirI, dirIdle, dirBusy,
                   dirWg, doneCount, made, addI, hasClient, ctxDone, unleashvars, wvars,
                   iovars, histvars>>

NextClient ==
    \/ NextPool
    \/ CtxEngReturn

SpecClient == InitCancel /\ [][NextClient]_vars

Succeeded == {j \in BatchJobs : result[j] = "nil"}
Failed == {j \in BatchJobs : result[j] \notin {"nil", "none"}}

\* C14: FilesDone counts exactly the jobs whose transfer returned nil (one
\* increment each, pending while the worker stands before IncFileDone) and
\* no job whose transfer returned an error; a failed job is not queued
\* again and its worker goes back to the head of its loop; an uncancelled
\* batch ends with every job transferred, FilesDone equal to the number of
\* successful jobs, and StartUnleash returned.
C14_FilesDoneCountsSuccesses ==
    /\ [](/\ filesDone = Cardinality(Succeeded) - Cardinality({w \in Workers : wpc[w] = "inc"})
          /\ \A w \in Workers : wpc[w] = "inc" => result[wjob[w]] = "nil"
          /\ \A w \in Workers : wpc[w] = "failed" => wjob[w] \in Failed
          /\ popped \o jobs = [i \in BatchJobs |-> i]
          /\ (upc = "returned" /\ ~ctxDone) =>
                /\ jobs = <<>>
                /\ Succeeded \cup Failed = BatchJobs
                /\ filesDone = Cardinality(Succeeded))
    /\ [][\A w \in Workers : (wpc[w] = "failed" /\ wpc'[w] # "failed") =>
             /\ wpc'[w] = "select"
             /\ filesDone' = filesDone
             /\ jobs' = jobs]_vars

\* One worker, two jobs, no cancellation: the first transfer failed, the
\* same worker transferred the second job, and the batch ended with
\* FilesDone 1.
C14_Witness ==
    /\ concurrency = 1
    /\ ~ctxDone
    /\ upc = "returned"
    /\ Len(fsize) = 2
    /\ result[1] = "io"
    /\ result[2] = "nil"
    /\ filesDone = 1

(***************************************************************************)
(* The split computed by uploadMultipart for a file of `size` bytes.       *)
(***************************************************************************)

\* chunkSize := size / int64(MultipartChunks)
ChunkSize(size) == size \div MultipartChunks

\* start := int64(i) * chunkSize
ChunkStart(i, size) == i * ChunkSize(size)

\* end := start + chunkSize; if i == MultipartChunks-1 { end = size }
ChunkEndNoRemainder(i, size) == ChunkStart(i, size) + ChunkSize(size)
ChunkEnd(i, size) ==
    IF i = MultipartChunks - 1 THEN size ELSE ChunkStart(i, size) + ChunkSize(size)

\* The sizes of the files split: from the threshold up, every remainder of
\* the division by MultipartChunks more than once
SplitSizes == MultipartThreshold .. (MultipartThreshold + MaxExtraBytes)

\* UploadFileWithProgress: fileSize >= MultipartThreshold, and the call of
\* uploadMultipart(ctx, session, localPath, remotePath, fileSize)
SplitEnter ==
    /\ splitSize = 0
    /\ \E size \in SplitSizes : splitSize' = size
    /\ UNCHANGED <<splitI, splitPlan, swarmvars>>
    /\ UNCHANGED <<qvars, monvars, mcallvars, concurrency, sessionCount, operation, fsize,
                   faultBudget, engvars, statvars, dlvars, sortvars, ctxDone, unleashvars, wvars, iovars, histvars>>

\* One iteration of the launch loop: go func(offset, length)(start, end-start);
\* the sub-worker reads through io.LimitReader(localFile, length)
SplitLaunch ==
    /\ splitSize > 0
    /\ splitI < MultipartChunks
    /\ splitPlan' = Append(splitPlan, <<ChunkStart(splitI, splitSize),
                                        ChunkEnd(splitI, splitSize) - ChunkStart(splitI, splitSize)>>)
    /\ splitI' = splitI + 1
    /\ UNCHANGED <<splitSize, swarmvars>>
    /\ UNCHANGED <<qvars, monvars, mcallvars, concurrency, sessionCount, operation, fsize,
                   faultBudget, engvars, statvars, dlvars, sortvars, ctxDone, unleashvars, wvars, iovars, histvars>>

NextSplit ==
    \/ SplitEnter
    \/ SplitLaunch

\* A process that runs nothing but one uploadMultipart call
InitSplit == InitQueueVars /\ InitMonitorVars /\ InitMonCallVars /\ InitPoolIdle

SpecSplit == InitSplit /\ [][NextSplit]_vars

RECURSIVE SumLengths(_)
SumLengths(plan) ==
    IF plan = <<>> THEN 0 ELSE plan[Len(plan)][2] + SumLengths(SubSeq(plan, 1, Len(plan) - 1))

\* C15: the byte ranges handed to the sub-workers start at offset 0, each
\* begins where the previous one ends, no two overlap, and once all
\* MultipartChunks are launched they end at the file size and their lengths
\* sum to it.
C15_SplitCoversFile ==
    /\ Len(splitPlan) = splitI
    /\ \A i \in 1..Len(splitPlan) : splitPlan[i][2] >= 0
    /\ Len(splitPlan) > 0 => splitPlan[1][1] = 0
    /\ \A i \in 1..(Len(splitPlan) - 1) :
          splitPlan[i + 1][1] = splitPlan[i][1] + splitPlan[i][2]
    /\ \A i, k \in 1..Len(splitPlan) :
          i < k => splitPlan[i][1] + splitPlan[i][2] <= splitPlan[k][1]
    /\ splitI = MultipartChunks =>
          /\ splitPlan[MultipartChunks][1] + splitPlan[MultipartChunks][2] = splitSize
          /\ SumLengths(splitPlan) = splitSize

\* All ranges are computed for a size that is not a multiple of
\* MultipartChunks: the last range is longer than the others.
C15_Witness ==
    /\ splitI = MultipartChunks
    /\ splitSize % MultipartChunks = MultipartChunks - 1
    /\ splitPlan[MultipartChunks][2] = splitPlan[1][2] + MultipartChunks - 1

\* C16: while a worker is in uploadMultipart no sub-worker is started again
\* and an error, once in errChan, stays; uploadMultipart returns only after
\* all sub-workers have exited; with an error in errChan the job enters
\* uploadSingleStream at attempt 1 with no attempt made yet, otherwise the
\* upload returns nil.
C16_ChunkFailureFallsBack ==
    [][\A w \in Workers : wpc[w] = "mpwait" =>
          /\ mpPending'[w] <= mpPending[w]
          /\ mpPending'[w] + mpOpen'[w] <= mpPending[w] + mpOpen[w]
          /\ (wpc'[w] = "mpwait" /\ mpErrs[w] > 0) => mpErrs'[w] > 0
          /\ wpc'[w] # "mpwait" =>
                /\ mpPending[w] = 0
                /\ mpOpen[w] = 0
                /\ IF mpErrs[w] > 0
                   THEN /\ wpc'[w] = "open"
                        /\ attempt'[w] = 1
                        /\ attemptLog'[w] = <<>>
                        /\ wjob'[w] = wjob[w]
                   ELSE /\ wpc'[w] = "inc"
                        /\ werr'[w] = "nil"]_vars

\* Without cancellation, one sub-worker failed on an I/O error after other
\* sub-workers had written their ranges; the job is now at the first attempt
\* of the single-stream upload.
C16_Witness ==
    \E w \in Workers :
        /\ ~ctxDone
        /\ faults = 1
        /\ wpc[w] = "open"
        /\ IsLarge(wjob[w])
        /\ attempt[w] = 1
        /\ attemptLog[w] = <<>>
        /\ dst[wjob[w]] > 0

\* C17: once the upload of a file at or above the multipart threshold has
\* returned nil, the destination holds exactly the blocks of the source,
\* each written once since the last truncation, whether the multipart
\* upload or the single-stream fallback returned the nil.
C17_LargeUploadIsComplete ==
    \A j \in BatchJobs :
        (operation = "UPLOAD" /\ IsLarge(j) /\ result[j] = "nil") => dst[j] = fsize[j]

\* The multipart upload wrote some ranges and failed on an I/O error, the
\* single-stream fallback then succeeded at its first attempt: the monitor
\* has counted more bytes than the file has, the destination has the file.
C17_Witness ==
    \E w \in Workers :
        /\ ~ctxDone
        /\ operation = "UPLOAD"
        /\ wpc[w] = "inc"
        /\ IsLarge(wjob[w])
        /\ result[wjob[w]] = "nil"
        /\ attemptLog[w] = <<"nil">>
        /\ bytesDone > fsize[wjob[w]]
        /\ dst[wjob[w]] = fsize[wjob[w]]

\* The multipart upload itself returned nil: no single-stream attempt ran.
C17_MultipartPath ==
    \E w \in Workers :
        /\ operation = "UPLOAD"
        /\ wpc[w] = "inc"
        /\ IsLarge(wjob[w])
        /\ result[wjob[w]] = "nil"
        /\ attemptLog[w] = <<>>
        /\ dst[wjob[w]] = fsize[wjob[w]]

\* Failed I/O calls of the file transfers: all failed calls but the failed
\* MkdirAll calls of the directory phase
TransferFaults == faults - (doneCount - Cardinality(made))

\* C18: when StartTransfer has returned from an upload of at least one file
\* in which no I/O call of a file transfer failed, FilesDone = TotalFiles =
\* the number of files scanned and BytesDone = TotalBytes = the sum of the
\* scanned sizes.
C18_FinalStats ==
    (epc = "done" /\ Len(fsize) > 0 /\ TransferFaults = 0) =>
        /\ eres = "nil"
        /\ totalFiles = Len(fsize)
        /\ filesDone = Len(fsize)
        /\ totalBytes = SumSizes(fsize)
        /\ bytesDone = SumSizes(fsize)
        /\ \A j \in BatchJobs : result[j] = "nil" /\ xfers[j] = 1

\* Two workers have uploaded two files of one block each below a directory
\* and StartTransfer has returned.
C18_Witness ==
    /\ epc = "done"
    /\ concurrency = 2
    /\ Len(walked) >= 1
    /\ fsize = <<1, 1>>
    /\ TransferFaults = 0
    /\ filesDone = 2
    /\ bytesDone = 2
    /\ totalBytes = 2

(***************************************************************************)
(* TransferMonitor.GetStats (plr.go 361-394), called by a goroutine of its *)
(* own while StartTransfer runs.                                           *)
(***************************************************************************)

\* The goroutine polling GetStats, as a holder of m.mu
StatsReader == -1

StatsOnly == UNCHANGED <<qvars, totalFiles, filesDone, totalBytes, bytesDone, currentFile, isRunning,
                         mcallvars, concurrency, sessionCount, operation, fsize, faultBudget,
                         engvars, splitvars, dlvars, sortvars, ctxDone, unleashvars, wvars, iovars, histvars>>

\* GetStats: m.mu.Lock()
StatsLock ==
    /\ spc \in {"idle", "returned", "modified"}
    /\ MuFree(mmu)
    /\ mmu' = StatsReader
    /\ spc' = "loadBytesDone"
    /\ snap' = NoStats
    /\ snapEpoch' = (epc = "unleash" /\ popped = <<>>)
    /\ sNow' = now
    /\ UNCHANGED <<filesPassed, speedvars, now, snapSpeed>>
    /\ StatsOnly

\* GetStats: bytesNow := atomic.LoadInt64(&m.bytesDone)
StatsLoadBytesDone ==
    /\ spc = "loadBytesDone"
    /\ snap' = [snap EXCEPT !.BytesDone = bytesDone]
    /\ spc' = "loadTotalBytes"
    /\ UNCHANGED <<mmu, snapEpoch, filesPassed, speedvars, now, sNow, snapSpeed>>
    /\ StatsOnly

\* if duration >= 0.5, in clock units
SampleInterval == 5
Later(duration) == duration > SampleInterval
Elapsed(duration) == duration >= SampleInterval

\* GetStats: totalBytes := atomic.LoadInt64(&m.totalBytes); then the speed:
\* duration := now.Sub(m.lastCheck); if duration >= 0.5 { diff := bytesNow -
\* m.lastBytes; m.currentSpeed = diff / duration; m.lastBytes = bytesNow;
\* m.lastCheck = now }
StatsLoadTotalBytes ==
    /\ spc = "loadTotalBytes"
    /\ snap' = [snap EXCEPT !.TotalBytes = totalBytes]
    /\ spc' = "loadTotalFiles"
    /\ IF Elapsed(sNow - lastCheck)
       THEN /\ currentSpeed' = <<snap.BytesDone - lastBytes, sNow - lastCheck>>
            /\ lastBytes' = snap.BytesDone
            /\ lastCheck' = sNow
       ELSE UNCHANGED speedvars
    /\ UNCHANGED <<mmu, snapEpoch, filesPassed, now, sNow, snapSpeed>>
    /\ StatsOnly

\* GetStats: TotalFiles: atomic.LoadInt64(&m.totalFiles)
StatsLoadTotalFiles ==
    /\ spc = "loadTotalFiles"
    /\ snap' = [snap EXCEPT !.TotalFiles = totalFiles]
    /\ spc' = "loadFilesDone"
    /\ UNCHANGED <<mmu, snapEpoch, filesPassed, speedvars, now, sNow, snapSpeed>>
    /\ StatsOnly

\* GetStats: FilesDone: atomic.LoadInt64(&m.filesDone)
StatsLoadFilesDone ==
    /\ spc = "loadFilesDone"
    /\ snap' = [snap EXCEPT !.FilesDone = filesDone]
    /\ spc' = "fields"
    /\ UNCHANGED <<mmu, snapEpoch, filesPassed, speedvars, now, sNow, snapSpeed>>
    /\ StatsOnly

\* GetStats: CurrentFile: m.currentFile, IsRunning: m.isRunning; the
\* snapshot is returned and the deferred Unlock runs
StatsReturn ==
    /\ spc = "fields"
    /\ snap' = [snap EXCEPT !.CurrentFile = currentFile, !.IsRunning = isRunning]
    /\ spc' = "returned"
    /\ mmu' = IF mmu = StatsReader THEN 0 ELSE mmu
    /\ snapSpeed' = currentSpeed
    /\ UNCHANGED <<snapEpoch, filesPassed, speedvars, now, sNow>>
    /\ StatsOnly

StatsStep ==
    \/ StatsLock
    \/ StatsLoadBytesDone
    \/ StatsLoadTotalBytes
    \/ StatsLoadTotalFiles
    \/ StatsLoadFilesDone
    \/ StatsReturn

\* GlobalMonitor as an earlier batch of one file of one block left it
LeftByEarlierBatch ==
    /\ totalFiles = 1
    /\ filesDone = 1
    /\ totalBytes = 1
    /\ bytesDone = 1
    /\ currentFile = RemotePath(1)
    /\ isRunning = FALSE
    /\ mmu = 0

\* StartTransfer has scanned up to MaxJobs small files and is about to seed
\* the queue; GlobalMonitor is fresh or was used by an earlier batch
InitStats ==
    /\ concurrency \in 1..MaxConcurrency
    /\ sessionCount = 1
    /\ operation = "UPLOAD"
    /\ \E n \in 1..MaxJobs : fsize \in [1..n -> 0..MaxBufs]
    /\ faultBudget = MaxPoolFaults
    /\ InitWorkers
    /\ WalkIdle
    /\ upc = "idle"
    /\ jobs = <<>>
    /\ added = <<>>
    /\ (InitMonitorVars \/ LeftByEarlierBatch)
    /\ EngineAt("queue")

NextStats ==
    \/ EngAdd
    \/ EngReset
    \/ EngReturn
    \/ UnleashStep
    \/ \E w \in Workers : WorkerStep(w)
    \/ StatsStep

SpecStats == InitStats /\ [][NextStats]_vars

\* The snapshot GetStats returns when it is called on the monitor as it is
ResetSnapshot ==
    [TotalFiles |-> Len(fsize), FilesDone |-> 0, TotalBytes |-> SumSizes(fsize), BytesDone |-> 0,
     CurrentFile |-> Placeholder, IsRunning |-> TRUE]

\* C19: from the return of Reset(totalFiles, totalBytes) until a worker pops
\* the first job the monitor holds TotalFiles = totalFiles, TotalBytes =
\* totalBytes, FilesDone = 0, BytesDone = 0, IsRunning = true and the
\* placeholder as CurrentFile, and every GetStats that locked the monitor in
\* that interval returns exactly these values.
C19_ResetStartsEpoch ==
    /\ (epc = "unleash" /\ popped = <<>>) =>
          /\ totalFiles = ResetSnapshot.TotalFiles
          /\ totalBytes = ResetSnapshot.TotalBytes
          /\ filesDone = 0
          /\ bytesDone = 0
          /\ currentFile = Placeholder
          /\ isRunning
    /\ (spc = "returned" /\ snapEpoch) => snap = ResetSnapshot

\* GetStats locked the monitor after Reset and before the first Pop; by the
\* time it returned a worker had popped a job and was about to take the
\* monitor's mutex in SetCurrentFile.
C19_Witness ==
    /\ spc = "returned"
    /\ snapEpoch
    /\ snap = ResetSnapshot
    /\ snap.TotalBytes = 2
    /\ popped # <<>>
    /\ filesDone = 0
    /\ \E w \in Workers : wpc[w] = "setfile"

\* C20: StartTransfer called with no session, or with a first session that
\* has no SFTP client, goes nowhere but to the return of the error
\* no_active_sessions, and has then added no job to the queue, launched no
\* directory worker, created no directory, left the monitor at its
\* NewMonitor values and started neither StartUnleash nor a worker.
C20_NoSessionsReturnsAtOnce ==
    /\ ((sessionCount = 0 \/ ~hasClient) /\ epc # "start") => epc = "error"
    /\ epc = "error" =>
          /\ sessionCount = 0 \/ ~hasClient
          /\ eres = "no_active_sessions"
          /\ jobs = <<>>
          /\ added = <<>>
          /\ foldersToCreate = <<>>
          /\ dirI = 0
          /\ dirBusy = {}
          /\ doneCount = 0
          /\ made = {}
          /\ totalFiles = 0 /\ totalBytes = 0 /\ filesDone = 0 /\ bytesDone = 0
          /\ currentFile = "" /\ ~isRunning
          /\ upc = "idle"
          /\ spawnI = 0
          /\ \A w \in Workers : wpc[w] = "none"
          /\ \A j \in BatchJobs : dst[j] = -1

\* Two sessions were passed, the first without an SFTP client, for a source
\* with a directory and a file: StartTransfer has returned the error.
C20_Witness ==
    /\ epc = "error"
    /\ sessionCount = 2
    /\ ~hasClient
    /\ Len(walked) >= 1
    /\ Len(fsize) >= 1
    /\ eres = "no_active_sessions"

\* C21: in an upload whose scan found no file, no step of StartTransfer
\* changes the queue, the monitor, StartUnleash or a worker, and when
\* StartTransfer has returned it has returned nil after one MkdirAll call
\* for every directory of the plan, all directory workers having exited.
C21_NoFilesIsNoOp ==
    /\ [][Len(fsize) = 0 =>
             /\ jobs' = jobs
             /\ added' = added
             /\ popped' = popped
             /\ monvars' = monvars
             /\ unleashvars' = unleashvars
             /\ wpc' = wpc]_vars
    /\ []((Len(fsize) = 0 /\ epc \in {"done", "queue", "unleash"}) =>
             /\ epc = "done"
             /\ eres = "nil"
             /\ DirPhaseOver
             /\ foldersToCreate = SortByLen(walked)
             /\ faults = 0 => made = {walked[i] : i \in 1..Len(walked)})

\* The scan found two directories and no file: both directories exist and
\* StartTransfer has returned nil without touching the monitor or a pool.
C21_Witness ==
    /\ epc = "done"
    /\ sessionCount >= 1
    /\ Len(fsize) = 0
    /\ Len(walked) = 2
    /\ made = {1, 2}
    /\ eres = "nil"
    /\ upc = "idle"
    /\ currentFile = ""
    /\ ~isRunning

(***************************************************************************)
(* A second Transfer on the same Client (fileripper.go 26-70): NewClient   *)
(* creates the Engine, NewEngine creates its Queue, and every Transfer     *)
(* runs c.engine.StartTransfer on them.                                    *)
(***************************************************************************)

\* Client.Transfer is called again, for the same source, with a context of
\* its own; StartTransfer has scanned and is about to seed e.Queue.  The
\* goroutines of the first pool are gone; the queue is the Engine's.
TransferAgain ==
    /\ epc = "done"
    /\ Len(added) = Len(fsize)
    /\ epc' = "queue"
    /\ eres' = "none"
    /\ addI' = 0
    /\ ctxDone' = FALSE
    /\ upc' = "idle"
    /\ spawnI' = 0
    /\ wpc' = [w \in Workers |-> "none"]
    /\ wsess' = [w \in Workers |-> -1]
    /\ popped' = <<>>
    /\ result' = [j \in BatchJobs |-> "none"]
    /\ xfers' = [j \in BatchJobs |-> 0]
    /\ queuedAtCancel' = -1
    /\ racers' = {}
    /\ mpCalls' = [j \in BatchJobs |-> 0]
    /\ UNCHANGED <<jobs, mu, qpc, qjob, qret, added, monvars, mcallvars,
                   concurrency, sessionCount, operation, fsize, faultBudget, splitvars, statvars, dlvars, sortvars,
                   hasClient, walked, foldersToCreate, dirChan, dirI, dirIdle, dirBusy, dirWg,
                   doneCount, made, wg, wjob, werr, attempt, lastErr, wpos, mpvars, iovars,
                   usedSess, attemptLog>>

\* The first operation is in StartUnleash on up to MaxJobs small files, no
\* I/O call fails
InitReuse ==
    /\ concurrency \in 1..MaxConcurrency
    /\ sessionCount = 1
    /\ operation \in {"UPLOAD", "DOWNLOAD"}
    /\ \E n \in 1..MaxJobs : fsize \in [1..n -> 0..MaxBufs]
    /\ faultBudget = 0
    /\ InitBatch

NextReuse ==
    \/ Cancel
    \/ UnleashStep
    \/ \E w \in Workers : WorkerStep(w)
    \/ CtxEngReturn
    \/ TransferAgain
    \/ EngAdd
    \/ EngReset

SpecReuse == InitReuse /\ [][NextReuse]_vars

\* C22: when an operation starts to seed the queue the queue is empty, the
\* queue never holds more jobs than the operation scanned, and within one
\* operation no job is popped more often than it was scanned.
C22_OwnQueuePerOperation ==
    /\ (epc = "queue" /\ addI = 0) => jobs = <<>>
    /\ Len(jobs) <= Len(fsize)
    /\ Len(popped) <= Len(fsize)

(***************************************************************************)
(* Engine.startDownload (engine.go 376-466) from the remote walk on; the   *)
(* Lstat of the target and the deep search precede it.                     *)
(***************************************************************************)

MaxEntries == 3

\* if walker.Err() != nil { continue }
SkipNothing(kind) == FALSE
SkipEntry(kind) == kind = "err"

\* The file entries among the first n entries of the walk
RECURSIVE FilesIn(_, _)
FilesIn(es, n) ==
    IF n = 0 THEN 0 ELSE FilesIn(es, n - 1) + (IF es[n] = "file" THEN 1 ELSE 0)

DownloadOnly == UNCHANGED <<monvars, mcallvars, concurrency, sessionCount, operation, fsize,
                            faultBudget, splitvars, statvars, sortvars, entries, remoteSource, findvars,
                            hasClient, eres, walked,
                            foldersToCreate, dirChan, dirI, dirIdle, dirBusy, dirWg, doneCount,
                            made, ctxDone, unleashvars, wvars, iovars, histvars>>

\* One iteration of `for walker.Step()`: an entry with an error is skipped;
\* a directory is created locally (os.MkdirAll, result ignored); a file
\* becomes a job: e.Queue.Add(...); queuedCount++; totalBytes += stat.Size()
DlWalkStep ==
    /\ epc = "dlwalk"
    /\ walkI < Len(entries)
    /\ walkI' = walkI + 1
    /\ IF SkipEntry(entries[walkI + 1]) \/ entries[walkI + 1] = "dir"
       THEN UNCHANGED <<qvars, addI, addedUnder>>
       ELSE /\ MuFree(mu)
            /\ jobs' = AppendJob(jobs, addI + 1)
            /\ added' = Append(added, addI + 1)
            /\ addI' = addI + 1
            /\ addedUnder' = Append(addedUnder, remoteSource)
            /\ UNCHANGED <<mu, qpc, qjob, qret, popped>>
    /\ UNCHANGED epc
    /\ DownloadOnly

\* The walk is over: GlobalMonitor.Reset(queuedCount, totalBytes)
DlReset ==
    /\ epc = "dlwalk"
    /\ AllEnqueued(walkI, Len(entries))
    /\ MuFree(mmu)
    /\ totalFiles' = addI
    /\ totalBytes' = SumSizes(SubSeq(fsize, 1, addI))
    /\ filesDone' = 0
    /\ bytesDone' = 0
    /\ currentFile' = Placeholder
    /\ isRunning' = TRUE
    /\ epc' = "dllaunch"
    /\ ResetBaseline
    /\ UNCHANGED <<qvars, mmu, mcallvars, concurrency, sessionCount, operation, fsize,
                   faultBudget, splitvars, dlvars, sortvars, hasClient, eres, walked,
                   spc, snap, snapEpoch, filesPassed, now, sNow, snapSpeed,
                   foldersToCreate, dirChan, dirI, dirIdle, dirBusy, dirWg, doneCount,
                   made, addI, ctxDone, unleashvars, wvars, iovars, histvars>>

\* if queuedCount > 0 { NewWorkerPool(concurrency, e.Queue).StartUnleash(sessions) }
\* else the warning; return nil
DlLaunch ==
    /\ epc = "dllaunch"
    /\ IF addI > 0
       THEN /\ epc' = "unleash"
            /\ upc' = "start"
            /\ eres' = eres
       ELSE /\ epc' = "done"
            /\ upc' = upc
            /\ eres' = "nil"
    /\ UNCHANGED <<qvars, monvars, mcallvars, concurrency, sessionCount, operation, fsize,
                   faultBudget, splitvars, statvars, dlvars, sortvars, hasClient, walked,
                   foldersToCreate, dirChan, dirI, dirIdle, dirBusy, dirWg, doneCount,
                   made, addI, ctxDone, spawnI, wg, wvars, iovars, histvars>>

\* The walks of up to MaxEntries entries over up to MaxJobs files
WalkReports ==
    UNION {[1..k -> {"file", "dir", "err"}] : k \in 0..MaxEntries}

\* startDownload is about to walk the remote source; GlobalMonitor is fresh
\* or was used by an earlier batch
InitDownload ==
    /\ concurrency \in 1..MaxConcurrency
    /\ sessionCount = 1
    /\ operation = "DOWNLOAD"
    /\ \E n \in 0..MaxJobs : fsize \in [1..n -> 0..MaxBufs]
    /\ faultBudget = MaxPoolFaults
    /\ InitWorkers
    /\ entries \in WalkReports
    /\ FilesIn(entries, Len(entries)) = Len(fsize)
    /\ walkI = 0
    /\ remoteSource = "requested"
    /\ addedUnder = <<>>
    /\ FindIdle
    /\ upc = "idle"
    /\ jobs = <<>>
    /\ added = <<>>
    /\ (InitMonitorVars \/ LeftByEarlierBatch)
    /\ EngineAt("dlwalk")

NextDownload ==
    \/ DlWalkStep
    \/ DlReset
    \/ DlLaunch
    \/ EngReturn
    \/ UnleashStep
    \/ \E w \in Workers : WorkerStep(w)

SpecDownload == InitDownload /\ [][NextDownload]_vars

\* C23: at every point of the remote walk the jobs added are the file
\* entries consumed so far, one job each, in walk order; entries with an
\* error add nothing and do not stop the walk; startDownload returns nil,
\* the monitor then counts the file entries as TotalFiles, and FilesDone
\* equals that number when every transfer returned nil.
C23_WalkSkipsBrokenEntry ==
    /\ added = [i \in 1..FilesIn(entries, walkI) |-> i]
    /\ addI = Len(added)
    /\ epc \in {"dllaunch", "unleash", "done"} =>
          /\ walkI = Len(entries)
          /\ totalFiles = Len(fsize)
          /\ totalBytes = SumSizes(fsize)
    /\ epc = "done" =>
          /\ eres = "nil"
          /\ jobs = <<>>
          /\ filesDone = Cardinality({j \in BatchJobs : result[j] = "nil"})
          /\ (\A j \in BatchJobs : result[j] = "nil") => filesDone = Len(fsize)

\* The walk reported a file, an entry with an error and another file; both
\* files were downloaded and startDownload has returned.
C23_Witness ==
    /\ epc = "done"
    /\ entries = <<"file", "err", "file">>
    /\ added = <<1, 2>>
    /\ \A j \in BatchJobs : result[j] = "nil"
    /\ filesDone = 2
    /\ totalFiles = 2

\* The size of job j's source file in bytes
SizeBytes(j) == fsize[j] * BlockBytes

C24_BelowThreshold ==
    \E w \in Workers :
        /\ operation = "UPLOAD"
        /\ wpc[w] = "inc"
        /\ fsize[wjob[w]] = ThresholdBlocks - 1
        /\ mpCalls[wjob[w]] = 0

\* The sub-workers of worker w that have not exited
SubWorkersAlive(w) == mpPending[w] + mpOpen[w]

\* C25: sub-workers exist only while their pool worker is inside
\* uploadMultipart, never more than 16 of them: when the worker re-creates
\* the destination in the single-stream fallback, returns to its loop or
\* pops its next job, every sub-worker it launched has exited and closed
\* its remote handle.
C25_MultipartOccupiesWorker ==
    /\ \A w \in Workers :
          /\ SubWorkersAlive(w) <= 16
          /\ wpc[w] # "mpwait" => SubWorkersAlive(w) = 0
    /\ (\A w \in Workers : wpc[w] \notin {"mpwait", "create", "copyCheck", "copyIO"}) =>
          \A s \in Sessions : streams[s] = 0

\* One worker has uploaded a file of 10 MiB by multipart, has popped the
\* next job and is about to create its destination.
C25_Witness ==
    \E w \in Workers :
        /\ concurrency = 1
        /\ wpc[w] = "create"
        /\ wjob[w] = 2
        /\ mpCalls[1] = 1
        /\ result[1] = "nil"
        /\ dst[1] = fsize[1]
        /\ popped = <<1, 2>>

\* What worker w's destination holds
Written(w) == IF wjob[w] = NoJob THEN 0 ELSE dst[wjob[w]]

C27_AttemptStartsFromScratch ==
    /\ \A w \in Workers :
          wpc[w] \in {"copyCheck", "copyIO"} =>
              /\ dst[wjob[w]] = wpos[w]
              /\ wpos[w] <= fsize[wjob[w]]
    /\ \A j \in BatchJobs :
          (result[j] = "nil" /\ mpCalls[j] = 0) => dst[j] = fsize[j]

\* A download of sixteen blocks failed in its first attempt after all the
\* source was read and at least the first buffer written, and succeeded in
\* its second: the monitor counted the source twice, the destination holds
\* it once.
C27_Witness ==
    \E w \in Workers :
        /\ operation = "DOWNLOAD"
        /\ wpc[w] = "inc"
        /\ fsize[wjob[w]] = ThresholdBlocks
        /\ faults = 1
        /\ attemptLog[w] = <<"io", "nil">>
        /\ bytesDone = 2 * fsize[wjob[w]]
        /\ dst[wjob[w]] = fsize[wjob[w]]

(***************************************************************************)
(* The upload of up to one small file below up to MaxDirs directories, any *)
(* of whose MkdirAll calls may fail, under a fair scheduler.               *)
(***************************************************************************)

InitDirs ==
    /\ concurrency = 1
    /\ sessionCount = 1
    /\ operation = "UPLOAD"
    /\ \E n \in 0..1 : fsize \in [1..n -> 0..MaxBufs]
    /\ faultBudget = MaxDirs
    /\ InitWorkers
    /\ WalkIdle
    /\ upc = "idle"
    /\ jobs = <<>>
    /\ added = <<>>
    /\ InitMonitorVars
    /\ epc = "start"
    /\ walked \in WalkOrders
    /\ foldersToCreate = <<>>
    /\ dirChan = <<>>
    /\ dirI = 0
    /\ dirIdle = 0
    /\ dirBusy = {}
    /\ dirWg = 0
    /\ doneCount = 0
    /\ made = {}
    /\ addI = 0
    /\ hasClient = TRUE
    /\ eres = "none"

\* The steps of the goroutine running StartTransfer, and of the directory
\* workers
EngStep ==
    \/ EngStart \/ EngWalk \/ EngFill \/ EngSpawnDir \/ EngDirWait
    \/ EngCount \/ EngAdd \/ EngReset \/ EngReturn
DirStep == DirRecv \/ (\E d \in 1..MaxDirs : DirMkdir(d)) \/ DirExit

\* The Go scheduler runs every runnable goroutine, and every I/O call returns.
SpecDirsFair ==
    /\ InitDirs
    /\ [][NextEngine]_vars
    /\ WF_vars(EngStep)
    /\ WF_vars(DirStep)
    /\ WF_vars(UnleashStep)
    /\ \A w \in 0 .. (MaxConcurrency - 1) : WF_vars(WorkerStep(w))

\* The directories of the plan whose MkdirAll call has returned or is running
Attempted == {walked[i] : i \in 1..Len(walked)} \ {dirChan[i] : i \in 1..Len(dirChan)}

\* C28: every directory of the plan is handed to MkdirAll once (the calls
\* returned are as many as the directories taken from the channel and not in
\* a call), failed or not; the directory phase always ends; StartTransfer
\* then queues every file, returns nil whatever was created, and counts
\* every file done when no I/O call of a transfer failed.
C28_MkdirErrorsSwallowed ==
    /\ [](epc \in {"spawnDirs", "count", "queue", "unleash", "done"} =>
             /\ doneCount + Cardinality(dirBusy) = Cardinality(Attempted)
             /\ dirBusy \subseteq Attempted
             /\ made \subseteq Attempted \ dirBusy)
    /\ [](epc \in {"count", "queue", "unleash", "done"} =>
             /\ DirPhaseOver
             /\ Attempted = {walked[i] : i \in 1..Len(walked)})
    /\ [](epc = "done" =>
             /\ eres = "nil"
             /\ added = [i \in BatchJobs |-> i]
             /\ TransferFaults = 0 => filesDone = Len(fsize))
    /\ (epc = "spawnDirs") ~> (epc = "count")
    /\ <>(epc = "done")

\* Both MkdirAll calls of a plan of two directories failed, the file was
\* uploaded and StartTransfer returned nil.
C28_Witness ==
    /\ epc = "done"
    /\ Len(walked) = 2
    /\ doneCount = 2
    /\ made = {}
    /\ faults = 2
    /\ Len(fsize) = 1
    /\ filesDone = 1
    /\ eres = "nil"

(***************************************************************************)
(* sort.Slice(foldersToCreate, func(i, j) { return len(f[i]) < len(f[j]) })*)
(* (engine.go 319-321) on remote paths.  A path is the sequence of its     *)
(* names below destPath; a name is <<spelling, number of characters>>.     *)
(***************************************************************************)

MaxDepth == 2
MaxPlan == 3

Names == {<<"a", 1>>, <<"b", 1>>, <<"cc", 2>>}
PathsBelowDest == UNION {[1..k -> Names] : k \in 1..MaxDepth}

\* len(path): every name preceded by its "/"
RECURSIVE PathLen(_)
PathLen(p) == IF p = <<>> THEN 0 ELSE 1 + Head(p)[2] + PathLen(Tail(p))

\* The less function handed to sort.Slice
LongerFirst(a, b) == PathLen(a) > PathLen(b)
ShorterFirst(a, b) == PathLen(a) < PathLen(b)

\* The orders of the distinct paths of q
Reorderings(q) ==
    {r \in [1..Len(q) -> {q[i] : i \in 1..Len(q)}] :
        \A a, b \in 1..Len(q) : a # b => r[a] # r[b]}

\* sort.Slice is not stable: every order in which no element is less than
\* an earlier one can be the result
SortSliceResults(q) ==
    {r \in Reorderings(q) : \A a, b \in 1..Len(r) : a < b => ~ShorterFirst(r[b], r[a])}

\* The plans: up to MaxPlan distinct directories in any order
Plans ==
    UNION {{q \in [1..k -> PathsBelowDest] : \A a, b \in 1..k : a # b => q[a] # q[b]} : k \in 0..MaxPlan}

SortPick ==
    /\ planOut = <<>>
    /\ \E q \in Plans : planIn' = q
    /\ planIn = <<>>
    /\ planIn' # <<>>
    /\ UNCHANGED planOut
    /\ UNCHANGED <<qvars, monvars, mcallvars, concurrency, sessionCount, operation, fsize,
                   faultBudget, engvars, splitvars, statvars, dlvars, ctxDone, unleashvars,
                   wvars, iovars, histvars>>

SortSlice ==
    /\ planOut = <<>>
    /\ planIn # <<>>
    /\ planOut' \in SortSliceResults(planIn)
    /\ UNCHANGED planIn
    /\ UNCHANGED <<qvars, monvars, mcallvars, concurrency, sessionCount, operation, fsize,
                   faultBudget, engvars, splitvars, statvars, dlvars, ctxDone, unleashvars,
                   wvars, iovars, histvars>>

NextSort ==
    \/ SortPick
    \/ SortSlice

InitSort == InitQueueVars /\ InitMonitorVars /\ InitMonCallVars /\ InitPoolIdle

SpecSort == InitSort /\ [][NextSort]_vars

\* q is the direct parent of p
IsParent(q, p) == Len(p) = Len(q) + 1 /\ SubSeq(p, 1, Len(q)) = q

\* C29: the sorted plan holds the paths of the plan, each once, in
\* ascending length, and every path whose direct parent is in the plan
\* comes after that parent.
C29_ParentBeforeChild ==
    planOut # <<>> =>
        /\ planOut \in Reorderings(planIn)
        /\ \A a, b \in 1..Len(planOut) : a < b => PathLen(planOut[a]) <= PathLen(planOut[b])
        /\ \A a, b \in 1..Len(planOut) : IsParent(planOut[a], planOut[b]) => a < b

\* A child listed before its parent and before a sibling of the parent of
\* the same length: the sort put the two short paths first, the sibling
\* ahead of the parent, and the child last.
C29_Witness ==
    /\ planIn = << <<<<"a", 1>>, <<"cc", 2>>>>, <<<<"a", 1>>>>, <<<<"b", 1>>>> >>
    /\ planOut = << <<<<"b", 1>>>>, <<<<"a", 1>>>>, <<<<"a", 1>>, <<"cc", 2>>>> >>

(***************************************************************************)
(* The file phase of both operations: the upload from its Queue.Add loop   *)
(* (engine.go 359-366), the download from its walk (engine.go 420-465).    *)
(***************************************************************************)

InitFilePhase == InitStats \/ InitDownload

NextFilePhase ==
    \/ EngAdd
    \/ EngReset
    \/ DlWalkStep
    \/ DlReset
    \/ DlLaunch
    \/ EngReturn
    \/ UnleashStep
    \/ \E w \in Workers : WorkerStep(w)

SpecFilePhase == InitFilePhase /\ [][NextFilePhase]_vars

\* The operation has not called GlobalMonitor.Reset yet
BeforeReset == epc \in {"queue", "dlwalk"}

\* C30: in upload and in download, until the operation's Reset no pool runs,
\* no job is popped and the monitor's progress counters are not touched;
\* Reset comes when every job of the operation is in the queue and none has
\* left it; the pool is launched after Reset only; and from Reset to the
\* return no step lowers FilesDone or BytesDone.
C30_ResetBetweenEnqueueAndLaunch ==
    /\ [](BeforeReset =>
            /\ upc = "idle"
            /\ popped = <<>>
            /\ \A w \in DOMAIN wpc : wpc[w] = "none")
    /\ [][(BeforeReset /\ BeforeReset') =>
            (filesDone' = filesDone /\ bytesDone' = bytesDone)]_vars
    /\ [][(BeforeReset /\ ~BeforeReset') =>
            /\ upc = "idle"
            /\ Len(added') = Len(fsize)
            /\ Len(jobs') = Len(fsize)
            /\ popped' = <<>>
            /\ totalFiles' = Len(fsize)
            /\ filesDone' = 0
            /\ bytesDone' = 0]_vars
    /\ [][(upc = "idle" /\ upc' # "idle") => ~BeforeReset']_vars
    /\ [][~BeforeReset => (filesDone' >= filesDone /\ bytesDone' >= bytesDone)]_vars

\* A download over a monitor an earlier batch left in use, with an entry
\* the walk skipped: both files were enqueued, Reset came, the pool ran and
\* both files are counted.
C30_Witness ==
    /\ operation = "DOWNLOAD"
    /\ epc = "done"
    /\ \E i \in DOMAIN entries : entries[i] = "err"
    /\ Len(popped) = 2
    /\ filesDone = 2
    /\ bytesDone > 0

\* The same for an upload
C30_UploadCase ==
    /\ operation = "UPLOAD"
    /\ epc = "done"
    /\ Len(popped) = 2
    /\ filesDone = 2
    /\ bytesDone > 0

(***************************************************************************)
(* findRemotePath(client, root, targetName, maxDepth) (engine.go 468-490). *)
(* The server's tree is what ReadDir answers: every directory is read at   *)
(* most once, so each answer is drawn when the call is made.  An entry is  *)
(* "match" (strings.EqualFold(f.Name(), targetName)), "dir" (f.IsDir(), no *)
(* match) or "file".                                                       *)
(***************************************************************************)

SearchDepth == 3
MaxListing == 2

Listings == UNION {[1..k -> {"match", "dir", "file"}] : k \in 0..MaxListing}

\* maxDepth of the k-th nested call: the outermost gets SearchDepth, each
\* recursion maxDepth-1
FrameDepth(k) == SearchDepth - (k - 1)

\* if maxDepth < 0 { return "" }
DepthExhausted(maxDepth) == maxDepth < 0

HasMatch(files) == \E i \in DOMAIN files : files[i] = "match"

\* The first loop returns at the first entry that matches
FirstMatch(files) == CHOOSE i \in DOMAIN files : files[i] = "match" /\ \A k \in 1..(i - 1) : files[k] # "match"

\* A call that has not read its directory yet
FrameEnter == [ph |-> "enter", files |-> <<>>, i |-> 0]

TopFrame == fstack[Len(fstack)]

\* path.Join(root, f.Name()) for entry i of the directory of the innermost
\* call: the entries the outer calls descended into, then i
JoinedPath(i) == [k \in 1..Len(fstack) |-> IF k < Len(fstack) THEN fstack[k].i ELSE i]

FindOnly == UNCHANGED <<qvars, monvars, mcallvars, concurrency, sessionCount, operation, fsize,
                        faultBudget, engvars, splitvars, statvars, sortvars, entries, walkI,
                        remoteSource, addedUnder, ctxDone, unleashvars, wvars, iovars, histvars>>

\* return "": the caller's second loop goes on with its next entry; the
\* outermost call hands "" to whoever called findRemotePath
FindReturnEmpty ==
    IF Len(fstack) = 1
    THEN /\ fstack' = <<>>
         /\ fres' = "empty"
         /\ fpath' = <<>>
    ELSE /\ fstack' = [SubSeq(fstack, 1, Len(fstack) - 1) EXCEPT ![Len(fstack) - 1].i = @ + 1]
         /\ UNCHANGED <<fres, fpath>>

\* The head of a call: the depth test, ReadDir, and the first loop.  A
\* match ends the whole search: every caller returns what it was handed.
FindEnter ==
    /\ fres = "run"
    /\ TopFrame.ph = "enter"
    /\ IF DepthExhausted(FrameDepth(Len(fstack)))
       THEN FindReturnEmpty
       ELSE \/ FindReturnEmpty
            \/ \E files \in Listings :
                  /\ fstack' = [fstack EXCEPT ![Len(fstack)] = [ph |-> "loop2", files |-> files, i |-> 1]]
                  /\ IF HasMatch(files)
                     THEN /\ fres' = "found"
                          /\ fpath' = JoinedPath(FirstMatch(files))
                     ELSE UNCHANGED <<fres, fpath>>
    /\ FindOnly

\* One iteration of the second loop: a directory is searched by a nested
\* call, any other entry is passed over; after the last entry return ""
FindDescend ==
    /\ fres = "run"
    /\ TopFrame.ph = "loop2"
    /\ IF TopFrame.i > Len(TopFrame.files)
       THEN FindReturnEmpty
       ELSE IF TopFrame.files[TopFrame.i] = "dir"
            THEN /\ fstack' = Append(fstack, FrameEnter)
                 /\ UNCHANGED <<fres, fpath>>
            ELSE /\ fstack' = [fstack EXCEPT ![Len(fstack)].i = @ + 1]
                 /\ UNCHANGED <<fres, fpath>>
    /\ FindOnly

\* findRemotePath(mainSession.SftpClient, ".", targetName, 3) is called
FindCall ==
    /\ fres = "idle"
    /\ fres' = "run"
    /\ fstack' = <<FrameEnter>>
    /\ UNCHANGED fpath
    /\ FindOnly

FindStep == FindEnter \/ FindDescend

InitFind == InitQueueVars /\ InitMonitorVars /\ InitMonCallVars /\ InitPoolIdle

NextFind ==
    \/ FindCall
    \/ FindEnter
    \/ FindDescend

SpecFind == InitFind /\ [][NextFind]_vars

SpecFindFair == SpecFind /\ WF_vars(NextFind)

\* The search comes to its return under a fair scheduler
FindTerminates == <>(fres \in {"empty", "found"})

\* C32: no call is nested deeper than the bound allows, a returned path has
\* at most SearchDepth components below the root and names a matching entry
\* of a directory reached through directories, and no subdirectory of a
\* directory that holds a match is ever searched.
C32_SearchWithinDepth ==
    /\ Len(fstack) <= SearchDepth + 2
    /\ \A k \in 1..(Len(fstack) - 1) : ~HasMatch(fstack[k].files)
    /\ fres = "found" =>
          /\ Len(fpath) = Len(fstack)
          /\ TopFrame.files[fpath[Len(fpath)]] = "match"
          /\ \A k \in 1..(Len(fpath) - 1) : fstack[k].files[fpath[k]] = "dir"
          /\ Len(fpath) <= SearchDepth

\* The search returned a path of SearchDepth + 1 components
C32_FourLevelsDown ==
    /\ fres = "found"
    /\ Len(fpath) = SearchDepth + 1

(***************************************************************************)
(* startDownload before its walk (engine.go 385-413): Lstat of the         *)
(* requested target, the fallback search, the substitution.                *)
(***************************************************************************)

\* remoteSource after a successful search
KeepRequested(found) == "requested"
Substitute(found) == found

ResolveOnly == UNCHANGED <<qvars, monvars, mcallvars, concurrency, sessionCount, operation, fsize,
                           faultBudget, splitvars, statvars, sortvars, entries, walkI, addedUnder,
                           hasClient, walked, foldersToCreate, dirChan, dirI, dirIdle, dirBusy, dirWg,
                           doneCount, made, addI, ctxDone, unleashvars, wvars, iovars, histvars>>

\* info, err = Lstat(remoteSource): on success the walk; on failure with a
\* target name the search; on failure without one (targetPath "" or ".")
\* return err
DlLstat ==
    /\ epc = "dlstat"
    /\ \E ok, named \in BOOLEAN :
          IF ok
          THEN /\ epc' = "dlwalk"
               /\ UNCHANGED <<eres, findvars>>
          ELSE IF named
               THEN /\ epc' = "dlsearch"
                    /\ fres' = "run"
                    /\ fstack' = <<FrameEnter>>
                    /\ UNCHANGED <<eres, fpath>>
               ELSE /\ epc' = "done"
                    /\ eres' = "lstat"
                    /\ UNCHANGED findvars
    /\ UNCHANGED remoteSource
    /\ ResolveOnly

\* findRemotePath has returned: "" is the error "target not found"; a path
\* replaces remoteSource and is given to Lstat, whose error is returned
DlSearchDone ==
    /\ epc = "dlsearch"
    /\ fres \in {"empty", "found"}
    /\ IF fres = "empty"
       THEN /\ epc' = "done"
            /\ eres' = "target not found"
            /\ UNCHANGED remoteSource
       ELSE /\ remoteSource' = Substitute("found")
            /\ \E ok \in BOOLEAN :
                  IF ok
                  THEN epc' = "dlwalk" /\ eres' = eres
                  ELSE epc' = "done" /\ eres' = "lstat"
    /\ UNCHANGED findvars
    /\ ResolveOnly

\* startDownload is called with one session: a small remote tree to walk,
\* GlobalMonitor fresh or left by an earlier batch
InitResolve ==
    /\ concurrency = 1
    /\ sessionCount = 1
    /\ operation = "DOWNLOAD"
    /\ \E n \in 0..MaxJobs : fsize \in [1..n -> 0..MaxBufs]
    /\ faultBudget = 0
    /\ InitWorkers
    /\ entries \in WalkReports
    /\ FilesIn(entries, Len(entries)) = Len(fsize)
    /\ Len(entries) <= Len(fsize) + 1
    /\ walkI = 0
    /\ remoteSource = "requested"
    /\ addedUnder = <<>>
    /\ FindIdle
    /\ upc = "idle"
    /\ jobs = <<>>
    /\ added = <<>>
    /\ (InitMonitorVars \/ LeftByEarlierBatch)
    /\ EngineAt("dlstat")

NextResolve ==
    \/ DlLstat
    \/ FindEnter
    \/ FindDescend
    \/ DlSearchDone
    \/ DlWalkStep
    \/ DlReset
    \/ DlLaunch
    \/ EngReturn
    \/ UnleashStep
    \/ \E w \in Workers : WorkerStep(w)

SpecResolve == InitResolve /\ [][NextResolve]_vars

\* C31: a download that ends with "target not found" has searched in vain
\* after a failed stat, has queued nothing, has not touched the monitor and
\* has started no worker; after a search that found the target, the walk
\* and every job are under the found path, and without a search under the
\* requested one.
C31_FallbackSearch ==
    /\ [](eres = "target not found" =>
            /\ epc = "done"
            /\ fres = "empty"
            /\ jobs = <<>>
            /\ added = <<>>
            /\ upc = "idle"
            /\ \A w \in DOMAIN wpc : wpc[w] = "none")
    /\ [][(eres' = "target not found") => (UNCHANGED <<monvars, qvars, wvars, unleashvars>>)]_vars
    /\ [][(epc \in {"dlstat", "dlsearch"}) => (UNCHANGED <<monvars, qvars, wvars, unleashvars>>)]_vars
    /\ [][(epc = "dlsearch" /\ fres = "empty") => (epc' = "done" /\ eres' = "target not found")]_vars
    /\ [](epc \in {"dlwalk", "dllaunch", "unleash"} \/ (epc = "done" /\ eres = "nil") =>
            /\ remoteSource = (IF fres = "found" THEN "found" ELSE "requested")
            /\ Len(addedUnder) = Len(added)
            /\ \A i \in DOMAIN addedUnder : addedUnder[i] = remoteSource)

\* The stat failed, the search found the target, and both files of the
\* found directory were downloaded
C31_Witness ==
    /\ epc = "done"
    /\ eres = "nil"
    /\ fres = "found"
    /\ addedUnder = <<"found", "found">>
    /\ Len(popped) = 2
    /\ filesDone = 2

\* The stat failed and the search found nothing, on a monitor an earlier
\* batch left in use
C31_NotFoundCase ==
    /\ eres = "target not found"
    /\ totalFiles > 0
    /\ ~isRunning

(***************************************************************************)
(* The speed sampling of GetStats (plr.go 365-377) against a clock, with   *)
(* AddBytes and Reset calls by other goroutines.                           *)
(***************************************************************************)

MaxClock == 7

\* Time passes: one clock unit is a tenth of a second
Tick ==
    /\ now < MaxClock
    /\ now' = now + 1
    /\ UNCHANGED <<spc, snap, snapEpoch, filesPassed, speedvars, sNow, snapSpeed>>
    /\ StatsOnly
    /\ UNCHANGED mmu

\* Reset(totalFiles, totalBytes) from Lock to Unlock: GetStats cannot run
\* in between, AddBytes writes nothing Reset or the speed sampling reads
\* before the next GetStats
MonitorReset ==
    /\ resetCalls < MaxResets
    /\ MuFree(mmu)
    /\ \E a \in ResetArgs : totalFiles' = a[1] /\ totalBytes' = a[2]
    /\ filesDone' = 0
    /\ bytesDone' = 0
    /\ bytesPassed' = 0
    /\ currentFile' = Placeholder
    /\ isRunning' = TRUE
    /\ ResetBaseline
    /\ resetCalls' = resetCalls + 1
    /\ UNCHANGED <<qvars, mmu, mpc, marg, addCalls, incCalls, concurrency, sessionCount, operation,
                   fsize, faultBudget, engvars, splitvars, dlvars, sortvars, spc, snap, snapEpoch, filesPassed,
                   now, sNow, snapSpeed, ctxDone, unleashvars, wvars, iovars, histvars>>

InitSpeed == InitQueueVars /\ InitMonitorVars /\ InitMonCallVars /\ InitPoolIdle

NextSpeed ==
    \/ Tick
    \/ MonitorReset
    \/ \E c \in Callers, n \in 1..MaxRead : AddBytes(c, n) /\ UNCHANGED <<qvars, poolvars>>
    \/ StatsStep

SpecSpeed == InitSpeed /\ [][NextSpeed]_vars

\* GetStats is at the test of the elapsed time
AtSpeedTest == spc = "loadTotalBytes" /\ spc' = "loadTotalFiles"

\* C34: a GetStats call whose clock reading is less than the sampling
\* interval after m.lastCheck (set by the last sample or by Reset) leaves
\* lastBytes, lastCheck and currentSpeed as they are; a call at or after
\* the interval moves the baseline to the byte count and the time it read
\* and computes the speed from the difference; either way the snapshot
\* carries m.currentSpeed as it then stands, and nothing else writes the
\* three fields while the call holds m.mu.
C34_SpeedDebounce ==
    /\ [][(AtSpeedTest /\ sNow - lastCheck < SampleInterval) =>
            (lastBytes' = lastBytes /\ lastCheck' = lastCheck /\ currentSpeed' = currentSpeed)]_vars
    /\ [][(AtSpeedTest /\ sNow - lastCheck >= SampleInterval) =>
            /\ lastBytes' = snap.BytesDone
            /\ lastCheck' = sNow
            /\ currentSpeed' = <<snap.BytesDone - lastBytes, sNow - lastCheck>>]_vars
    /\ [][(mmu = StatsReader /\ ~AtSpeedTest) =>
            (lastBytes' = lastBytes /\ lastCheck' = lastCheck /\ currentSpeed' = currentSpeed)]_vars
    /\ [][(spc = "fields" /\ spc' = "returned") => snapSpeed' = currentSpeed]_vars
    /\ [](mmu = StatsReader => sNow >= lastCheck)

\* A call exactly one interval after the start took a sample of the bytes
\* added so far; the next call, one clock unit later with more bytes added,
\* returned the same speed and left the baseline where it was.
C34_Witness ==
    /\ spc = "returned"
    /\ sNow = SampleInterval + 1
    /\ lastCheck = SampleInterval
    /\ lastBytes > 0
    /\ bytesDone > lastBytes
    /\ snap.BytesDone = bytesDone
    /\ snapSpeed = <<lastBytes, SampleInterval>>

(***************************************************************************)
(* The caller of GetStats writes to the TransferStats it was handed        *)
(* (plr.go 384-393: a struct of int64, float64, string and bool fields,    *)
(* returned by value).                                                     *)
(***************************************************************************)

\* What a field of the monitor holds after the caller wrote to the field
\* of the snapshot that was loaded from it
ByReference(own, written) == written
ByValue(own, written) == own

SnapshotWrite ==
    /\ spc = "returned"
    /\ spc' = "modified"
    /\ snap' = [TotalFiles |-> 0, FilesDone |-> 0, TotalBytes |-> 0, BytesDone |-> 0,
                CurrentFile |-> "", IsRunning |-> ~snap.IsRunning]
    /\ totalFiles' = ByValue(totalFiles, snap'.TotalFiles)
    /\ filesDone' = ByValue(filesDone, snap'.FilesDone)
    /\ totalBytes' = ByValue(totalBytes, snap'.TotalBytes)
    /\ bytesDone' = ByValue(bytesDone, snap'.BytesDone)
    /\ currentFile' = ByValue(currentFile, snap'.CurrentFile)
    /\ isRunning' = ByValue(isRunning, snap'.IsRunning)
    /\ UNCHANGED <<qvars, mmu, mcallvars, concurrency, sessionCount, operation, fsize, faultBudget,
                   engvars, splitvars, dlvars, sortvars, snapEpoch, filesPassed, speedvars, now, sNow, snapSpeed,
                   ctxDone, unleashvars, wvars, iovars, histvars>>

NextObserve ==
    \/ EngAdd
    \/ EngReset
    \/ EngReturn
    \/ UnleashStep
    \/ \E w \in Workers : WorkerStep(w)
    \/ StatsStep
    \/ SnapshotWrite

SpecObserve == InitStats /\ [][NextObserve]_vars

\* C33: no step of the goroutine that calls GetStats, inside the call or
\* writing to the snapshot it got, changes TotalFiles, FilesDone,
\* TotalBytes, BytesDone, CurrentFile or IsRunning of the monitor, the
\* queue, or anything of the pool and its workers; it writes m.mu, the
\* speed fields and its own copy only.
C33_GetStatsIsPureRead ==
    [][(spc' # spc) =>
          /\ totalFiles' = totalFiles
          /\ filesDone' = filesDone
          /\ totalBytes' = totalBytes
          /\ bytesDone' = bytesDone
          /\ currentFile' = currentFile
          /\ isRunning' = isRunning
          /\ UNCHANGED <<qvars, engvars, unleashvars, wvars, iovars>>]_vars

\* With a worker in the middle of a copy, the caller has overwritten the
\* snapshot of a running batch, and the monitor still holds its values
C33_Witness ==
    /\ spc = "modified"
    /\ \E w \in DOMAIN wpc : wpc[w] = "copyIO"
    /\ isRunning
    /\ ~snap.IsRunning
    /\ filesDone > 0
    /\ bytesDone > 0
    /\ totalFiles = 2

(***************************************************************************)
(* Progress within one epoch of the monitor.                               *)
(***************************************************************************)

\* C35: from Reset(fileCount, totalBytes) on, BytesDone never exceeds
\* TotalBytes, retried attempts and the fallback after a failed multipart
\* upload included.
C35_BytesWithinTotal == bytesDone <= totalBytes

\* A transfer that failed after its source was read has been repeated and
\* has succeeded: the counter stands above the total
C35_CountedTwice ==
    \E w \in Workers :
        /\ wpc[w] = "inc"
        /\ attemptLog[w] = <<"io", "nil">>
        /\ totalBytes > 0
        /\ bytesDone = 2 * totalBytes

\* C36: from Reset on, FilesDone never exceeds TotalFiles, whatever
\* operations the Client has run before, a cancelled one included.
C36_FilesWithinTotal == filesDone <= totalFiles

\* The operation after a cancelled one has returned: one file scanned, two
\* counted
C36_LeftOverCounted ==
    /\ epc = "done"
    /\ Len(fsize) = 1
    /\ totalFiles = 1
    /\ filesDone = 2

\* C37: when an operation that called Reset has returned, IsRunning is
\* false, a download whose walk queued no file included.
C37_NotRunningAfterReturn == epc = "done" => ~isRunning

\* A download whose walk reported a directory and an unreadable entry and
\* no file has returned nil: Reset(0, 0) was its last word to the monitor
C37_EmptyDownloadStillRunning ==
    /\ epc = "done"
    /\ eres = "nil"
    /\ entries = <<"dir", "err">>
    /\ totalFiles = 0
    /\ isRunning

\* The same with the empty download set aside
C37_HoldsWhenPoolRan == (epc = "done" /\ Len(fsize) > 0) => ~isRunning

(***************************************************************************)
(* A batch that nobody cancels, with enough failing I/O calls for every    *)
(* transfer to fail for good (MaxAttempts failed attempts each).           *)
(***************************************************************************)

InitDrain ==
    /\ concurrency \in 1..MaxConcurrency
    /\ sessionCount = 1
    /\ operation \in {"UPLOAD", "DOWNLOAD"}
    /\ \E n \in 1..MaxJobs : fsize \in [1..n -> 0..MaxBufs]
    /\ faultBudget = MaxAttempts * Len(fsize)
    /\ InitBatch

NextDrain ==
    \/ UnleashStep
    \/ \E w \in Workers : WorkerStep(w)

\* The Go scheduler runs every runnable goroutine, and every I/O call returns.
SpecDrainFair ==
    /\ InitDrain
    /\ [][NextDrain]_vars
    /\ WF_vars(UnleashStep)
    /\ \A w \in 0 .. (MaxConcurrency - 1) : WF_vars(WorkerStep(w))

\* C38: a batch that is not cancelled comes to the return of StartUnleash;
\* then the queue is empty, every job that was enqueued has been popped
\* once and handed to its transfer function once, whether the transfer
\* succeeded or failed, and every worker has exited; at no time is a job
\* popped or transferred twice.
C38_BatchDrains ==
    /\ <>(upc = "returned")
    /\ [](upc = "returned" =>
            /\ jobs = <<>>
            /\ Len(popped) = Len(added)
            /\ \A j \in BatchJobs : \E i \in DOMAIN popped : popped[i] = j
            /\ \A j \in BatchJobs : xfers[j] = 1 /\ result[j] \in {"nil", "io"}
            /\ \A w \in Workers : wpc[w] = "exited")
    /\ [](\A i, k \in DOMAIN popped : i # k => popped[i] # popped[k])
    /\ [](\A j \in BatchJobs : xfers[j] <= 1)

\* Two workers and two jobs: one transfer failed in all its attempts, the
\* other succeeded, and StartUnleash has returned
C38_Witness ==
    /\ upc = "returned"
    /\ concurrency = 2
    /\ Len(fsize) = 2
    /\ \E j, k \in BatchJobs : result[j] = "io" /\ result[k] = "nil"
    /\ filesDone = 1
    /\ jobs = <<>>

\* One worker for two jobs, both failed
C38_FewerWorkersThanJobs ==
    /\ upc = "returned"
    /\ concurrency = 1
    /\ Len(fsize) = 2
    /\ \A j \in BatchJobs : result[j] = "io"

\* Two workers for one job
C38_MoreWorkersThanJobs ==
    /\ upc = "returned"
    /\ concurrency = 2
    /\ Len(fsize) = 1

(***************************************************************************)
(* Reset statement by statement (plr.go 323-337) next to GetStats (plr.go  *)
(* 361-394) and the lock-free AddBytes / IncFileDone (plr.go 340-346).     *)
(***************************************************************************)

\* What a step of Reset, AddBytes or IncFileDone leaves alone
EpochOnly == UNCHANGED <<qvars, concurrency, sessionCount, operation, fsize, faultBudget, engvars,
                         splitvars, dlvars, sortvars, spc, snap, snapEpoch, speedvars, now, sNow,
                         snapSpeed, ctxDone, unleashvars, wvars, iovars, histvars>>

NextEpoch ==
    \/ \E c \in Callers : ResetLock(c) /\ UNCHANGED filesPassed /\ EpochOnly
    \/ \E c \in Callers : ResetTotalFiles(c) /\ UNCHANGED filesPassed /\ EpochOnly
    \/ \E c \in Callers : ResetTotalBytes(c) /\ UNCHANGED filesPassed /\ EpochOnly
    \/ \E c \in Callers : ResetFilesDone(c) /\ filesPassed' = 0 /\ EpochOnly
    \/ \E c \in Callers : ResetBytesDone(c) /\ UNCHANGED filesPassed /\ EpochOnly
    \/ \E c \in Callers : ResetFields(c) /\ UNCHANGED filesPassed /\ EpochOnly
    \/ \E c \in Callers, n \in 1..MaxRead : AddBytes(c, n) /\ UNCHANGED filesPassed /\ EpochOnly
    \/ \E c \in Callers : IncFileDone(c) /\ filesPassed' = filesPassed + 1 /\ EpochOnly
    \/ StatsStep

InitEpoch == InitQueueVars /\ InitMonitorVars /\ InitMonCallVars /\ InitPoolIdle

SpecEpoch == InitEpoch /\ [][NextEpoch]_vars

\* The totals of NewMonitor and of the Reset calls
EpochTotals == ResetArgs \cup {<<0, 0>>}

\* C39: while GetStats holds m.mu no Reset is between its Lock and its
\* Unlock; a returned snapshot carries the TotalFiles and TotalBytes of one
\* and the same Reset (or of NewMonitor), and its FilesDone and BytesDone
\* are what IncFileDone and AddBytes added since that Reset zeroed the
\* counters, up to the moment of the load.
C39_NoHalfReset ==
    /\ [](mmu = StatsReader => \A c \in Callers : mpc[c] = "idle")
    /\ [](spc = "returned" => <<snap.TotalFiles, snap.TotalBytes>> \in EpochTotals)
    /\ [](spc = "fields" =>
            /\ <<snap.TotalFiles, snap.TotalBytes>> = <<totalFiles, totalBytes>>
            /\ snap.FilesDone <= filesPassed
            /\ snap.BytesDone <= bytesPassed)
    /\ [][(spc = "loadBytesDone" /\ spc' # spc) => snap'.BytesDone = bytesPassed]_vars
    /\ [][(spc = "loadFilesDone" /\ spc' # spc) => snap'.FilesDone = filesPassed]_vars

\* Bytes and a file were counted, a second Reset with other totals came and
\* one more byte was added: the snapshot returned shows the second Reset's
\* totals, no file and the one byte
C39_Witness ==
    /\ spc = "returned"
    /\ resetCalls = 2
    /\ incCalls >= 1
    /\ addCalls >= 2
    /\ snap.FilesDone = 0
    /\ snap.BytesDone = 1
    /\ <<snap.TotalFiles, snap.TotalBytes>> \in ResetArgs
    /\ \A c \in Callers : mpc[c] = "idle"

(***************************************************************************)
(* The sub-workers of one uploadMultipart call and their error channel     *)
(* (transfer.go 188-279).  The sub-workers run the same code and are       *)
(* counted by position; every I/O call of a sub-worker may fail.           *)
(***************************************************************************)

\* errChan := make(chan error, MultipartChunks)
Unbuffered(chunks) == 0
ErrChanCap(chunks) == chunks

\* errChan <- err proceeds while the buffer has room
CanSend == errChan < ErrChanCap(MultipartChunks)

SwarmOnly == UNCHANGED <<qvars, monvars, mcallvars, concurrency, sessionCount, operation, fsize,
                         faultBudget, engvars, splitSize, splitI, splitPlan, statvars, dlvars,
                         sortvars, unleashvars, wvars, iovars, histvars>>

\* The owner of ctx cancels it
SwarmCancel ==
    /\ ~ctxDone
    /\ mres = "run"
    /\ ctxDone' = TRUE
    /\ UNCHANGED swarmvars
    /\ SwarmOnly

\* for i := 0; i < MultipartChunks; i++ { wg.Add(1); go func(...) }
SwarmLaunch ==
    /\ mres = "run"
    /\ subI < MultipartChunks
    /\ subI' = subI + 1
    /\ subOpening' = subOpening + 1
    /\ UNCHANGED <<subCopying, subExited, subBlocked, errChan, mres, ctxDone>>
    /\ SwarmOnly

\* errChan <- err; return (with the deferred wg.Done()): the send comes
\* first, and a sub-worker whose send cannot proceed stays in it
SendAndExit ==
    IF CanSend
    THEN /\ errChan' = errChan + 1
         /\ subExited' = subExited + 1
         /\ UNCHANGED subBlocked
    ELSE /\ subBlocked' = subBlocked + 1
         /\ UNCHANGED <<errChan, subExited>>

\* A sub-worker's OpenFile, os.Open and two Seeks: all succeed, or the
\* first that fails is sent to errChan
SwarmOpen ==
    /\ subOpening > 0
    /\ subOpening' = subOpening - 1
    /\ \/ /\ subCopying' = subCopying + 1
          /\ UNCHANGED <<subExited, subBlocked, errChan>>
       \/ /\ SendAndExit
          /\ UNCHANGED subCopying
    /\ UNCHANGED <<subI, mres, ctxDone>>
    /\ SwarmOnly

\* A sub-worker's copy loop to its end: io.EOF and return, or ctx.Err(), a
\* Write error or a Read error sent to errChan
SwarmCopy ==
    /\ subCopying > 0
    /\ subCopying' = subCopying - 1
    /\ \/ /\ ~ctxDone
          /\ subExited' = subExited + 1
          /\ UNCHANGED <<subBlocked, errChan>>
       \/ SendAndExit
    /\ UNCHANGED <<subI, subOpening, mres, ctxDone>>
    /\ SwarmOnly

\* wg.Wait(); close(errChan); if len(errChan) > 0 { return <-errChan };
\* ...; return nil
SwarmJoin ==
    /\ mres = "run"
    /\ subI = MultipartChunks
    /\ WaitReturns(subI - subExited)
    /\ mres' = IF AnyChunkFailed(errChan) THEN "err" ELSE "nil"
    /\ UNCHANGED <<subI, subOpening, subCopying, subExited, subBlocked, errChan, ctxDone>>
    /\ SwarmOnly

\* The goroutine inside uploadMultipart, and its sub-workers
SwarmMain == SwarmLaunch \/ SwarmJoin
SwarmSub == SwarmOpen \/ SwarmCopy

NextSwarm ==
    \/ SwarmCancel
    \/ SwarmLaunch
    \/ SwarmOpen
    \/ SwarmCopy
    \/ SwarmJoin

InitSwarm == InitQueueVars /\ InitMonitorVars /\ InitMonCallVars /\ InitPoolIdle

\* The Go scheduler runs every runnable goroutine, and every I/O call returns.
SpecSwarmFair ==
    /\ InitSwarm
    /\ [][NextSwarm]_vars
    /\ WF_vars(SwarmMain)
    /\ WF_vars(SwarmSub)

\* C40: the error channel never holds more errors than sub-workers have
\* exited, so never more than its capacity, and no sub-worker is ever held
\* in a send; the join completes and uploadMultipart returns; it returns
\* an error exactly when a sub-worker sent one.
C40_ErrChanNeverBlocks ==
    /\ [](subBlocked = 0)
    /\ [](errChan <= subExited /\ subExited <= MultipartChunks)
    /\ [](subI = subOpening + subCopying + subExited)
    /\ <>(mres # "run")
    /\ [](mres # "run" => subExited = MultipartChunks)
    /\ [](mres = "err" <=> (mres # "run" /\ errChan > 0))

\* Every sub-worker failed and sent its error: the channel is full and
\* uploadMultipart has returned the error
C40_Witness ==
    /\ mres = "err"
    /\ errChan = MultipartChunks
    /\ subExited = MultipartChunks

\* No sub-worker failed
C40_AllChunksWritten ==
    /\ mres = "nil"
    /\ errChan = 0
    /\ ~ctxDone
====
